---- MODULE Spec2Model ----
(***************************************************************************)
(* Retrieval-and-generation query pipeline of the finance assistant:       *)
(* SecurityChecker (flag extraction, dangerous substrings, code/SQL        *)
(* pattern), EmbeddingCache (persistent embedding cache), LLMAdapter       *)
(* (streaming client with retries), DialogueMemory and the ask_streaming   *)
(* orchestrator of SmartDeepThinkRAG / FinancialAssistant.                 *)
(*                                                                         *)
(* Texts are sequences of one-character strings.  Cyrillic letters are     *)
(* written as "cyr_x" tokens (one token is one character).                 *)
(***************************************************************************)
EXTENDS Integers, Sequences, FiniteSets, TLC

(***************************************************************************)
(* Bounds of the model.                                                    *)
(***************************************************************************)
MaxPieces == 3

(***************************************************************************)
(* Text primitives (Python str semantics).                                 *)
(***************************************************************************)
\* str.lower() on one character; these are the capitals of the alphabet
LowerChar(c) ==
    CASE c = "S" -> "s"
      [] c = "Q" -> "q"
      [] c = "L" -> "l"
      [] c = "cyr_K" -> "cyr_k"
      [] c = "cyr_R" -> "cyr_r"
      [] c = "cyr_V" -> "cyr_v"
      [] c = "cyr_S" -> "cyr_s"
      [] OTHER -> c

Lower(s) == [i \in 1..Len(s) |-> LowerChar(s[i])]

\* characters that str.strip() removes
IsSpace(c) == c = " "

\* \w of the re module: letters are word characters, blanks and punctuation
\* are not
IsWordChar(c) == c \notin {" ", "-", ",", "!", ":"}

\* sub occurs in s starting at index i
OccursAt(s, sub, i) ==
    /\ i >= 1
    /\ i + Len(sub) - 1 <= Len(s)
    /\ \A j \in 1..Len(sub) : s[i + j - 1] = sub[j]

\* Python "sub in s"
Contains(s, sub) == \E i \in 1..(Len(s) + 1) : OccursAt(s, sub, i)

\* Python s.endswith(suffix)
EndsWith(s, suffix) ==
    /\ Len(suffix) <= Len(s)
    /\ OccursAt(s, suffix, Len(s) - Len(suffix) + 1)

\* Python s.replace(sub, ''): one left-to-right pass over non-overlapping
\* occurrences; the result is not scanned again
RECURSIVE RemoveAll(_, _)
RemoveAll(s, sub) ==
    IF Len(s) < Len(sub) THEN s
    ELSE IF OccursAt(s, sub, 1)
         THEN RemoveAll(SubSeq(s, Len(sub) + 1, Len(s)), sub)
         ELSE <<s[1]>> \o RemoveAll(Tail(s), sub)

RECURSIVE LStrip(_)
LStrip(s) == IF s # <<>> /\ IsSpace(s[1]) THEN LStrip(Tail(s)) ELSE s

RECURSIVE RStrip(_)
RStrip(s) ==
    IF s # <<>> /\ IsSpace(s[Len(s)]) THEN RStrip(SubSeq(s, 1, Len(s) - 1)) ELSE s

\* Python s.strip()
Strip(s) == RStrip(LStrip(s))

\* concatenation of a sequence of texts
RECURSIVE Flatten(_)
Flatten(ss) == IF ss = <<>> THEN <<>> ELSE ss[1] \o Flatten(Tail(ss))

\* all sequences over S of length 0..n
SeqsUpTo(S, n) == UNION {[1..k -> S] : k \in 0..n}


(***************************************************************************)
(* SecurityChecker: flags, code/SQL pattern, rules.                        *)
(***************************************************************************)
\* self.flags, in dict order
FlagOrder == <<"-notrigger", "-nocode", "-nodeep", "-simple">>

\* the characters of a flag token
FlagChars(f) ==
    CASE f = "-notrigger" -> <<"-", "n", "o", "t", "r", "i", "g", "g", "e", "r">>
      [] f = "-nocode" -> <<"-", "n", "o", "c", "o", "d", "e">>
      [] f = "-nodeep" -> <<"-", "n", "o", "d", "e", "e", "p">>
      [] f = "-simple" -> <<"-", "s", "i", "m", "p", "l", "e">>

\* the for loop of _extract_flags from flag number i on
RECURSIVE ExtractFrom(_, _, _)
ExtractFrom(i, clean, found) ==
    IF i > Len(FlagOrder) THEN [clean |-> clean, flags |-> found]
    ELSE LET fc == FlagChars(FlagOrder[i])
         IN IF Contains(clean, fc)
            THEN ExtractFrom(i + 1, Strip(RemoveAll(clean, fc)),
                             Append(found, FlagOrder[i]))
            ELSE ExtractFrom(i + 1, clean, found)

\* SecurityChecker._extract_flags
extract_flags(text) == ExtractFrom(1, text, <<>>)

\* membership in the list flags_found
HasFlag(flags, f) == \E i \in 1..Len(flags) : flags[i] = f

\* keywords of _code_patterns that are wrapped in \b ... \b
CodeWords ==
    { <<"s", "q", "l">>,
      <<"s", "e", "l", "e", "c", "t">>,
      <<"i", "n", "s", "e", "r", "t">>,
      <<"u", "p", "d", "a", "t", "e">>,
      <<"d", "e", "l", "e", "t", "e">>,
      <<"d", "r", "o", "p">>,
      <<"c", "r", "e", "a", "t", "e", " ", "t", "a", "b", "l", "e">>,
      <<"e", "x", "e", "c", "u", "t", "e">>,
      <<"e", "v", "a", "l">>,
      <<"e", "x", "e", "c">> }

\* "napisat' kod", "sgeneriruj sql"
CodePhrasesCommon ==
    { <<"cyr_n", "cyr_a", "cyr_p", "cyr_i", "cyr_s", "cyr_a", "cyr_t", "cyr_soft",
        " ", "cyr_k", "cyr_o", "cyr_d">>,
      <<"cyr_s", "cyr_g", "cyr_e", "cyr_n", "cyr_e", "cyr_r", "cyr_i", "cyr_r",
        "cyr_u", "cyr_j", " ", "s", "q", "l">> }

\* "zapros sql", "vypolnit' sql", "kak vypolnit' sql"
CodePhrasesChecker ==
    CodePhrasesCommon \cup
    { <<"cyr_z", "cyr_a", "cyr_p", "cyr_r", "cyr_o", "cyr_s", " ", "s", "q", "l">>,
      <<"cyr_v", "cyr_y", "cyr_p", "cyr_o", "cyr_l", "cyr_n", "cyr_i", "cyr_t",
        "cyr_soft", " ", "s", "q", "l">>,
      <<"cyr_k", "cyr_a", "cyr_k", " ", "cyr_v", "cyr_y", "cyr_p", "cyr_o", "cyr_l",
        "cyr_n", "cyr_i", "cyr_t", "cyr_soft", " ", "s", "q", "l">> }

\* re.search of \bw\b with IGNORECASE
WordMatch(s, w) ==
    \E i \in 1..Len(s) :
        /\ OccursAt(Lower(s), w, i)
        /\ (i = 1 \/ ~IsWordChar(s[i - 1]))
        /\ (i + Len(w) > Len(s) \/ ~IsWordChar(s[i + Len(w)]))

\* self._code_regex.search(text) of SecurityChecker
CodeRegexSearch(s) ==
    \/ \E w \in CodeWords : WordMatch(s, w)
    \/ \E p \in CodePhrasesChecker : Contains(Lower(s), p)

\* the words that make a dangerous pattern a "code" pattern under -nocode:
\* "kod", "sql", "komandu"
NoCodeWords ==
    { <<"cyr_k", "cyr_o", "cyr_d">>,
      <<"s", "q", "l">>,
      <<"cyr_k", "cyr_o", "cyr_m", "cyr_a", "cyr_n", "cyr_d", "cyr_u">> }

\* the texts check returns when the rule file configures none
CheckerMsg ==
    [ no_trigger |-> "notrigger mode activated",
      policy |-> "request rejected by security policy",
      code |-> "cannot generate program code or SQL instructions" ]
Absent == "<absent>"

\* dangerous substrings used by the configurations below: "vzlom", "sql"
PatHack == <<"cyr_v", "cyr_z", "cyr_l", "cyr_o", "cyr_m">>
PatSql == <<"s", "q", "l">>

(***************************************************************************)
(* What _load_rules can return: the parsed security_rules.json ("dict"),   *)
(* {} when the file is missing or unreadable, or a JSON value that is not  *)
(* an object ("list").  dangerous_patterns lists the keys in file order;   *)
(* msgs holds the rejection_messages found for those keys.                 *)
(***************************************************************************)
RulesMissing ==
    [kind |-> "dict", dangerous_patterns |-> <<>>, msgs |-> <<>>,
     default |-> Absent, code |-> Absent]

RulesFull ==
    [kind |-> "dict", dangerous_patterns |-> <<PatHack, PatSql>>,
     msgs |-> <<"cfg: no hacking help", Absent>>,
     default |-> "cfg: default refusal", code |-> "cfg: code refusal"]

RulesBare ==
    [kind |-> "dict", dangerous_patterns |-> <<PatSql, PatHack>>,
     msgs |-> <<Absent, Absent>>,
     default |-> Absent, code |-> Absent]

RulesNotDict ==
    [kind |-> "list", dangerous_patterns |-> <<>>, msgs |-> <<>>,
     default |-> Absent, code |-> Absent]

RuleSets == {RulesMissing, RulesFull, RulesBare, RulesNotDict}

\* rejection_messages.get(pattern, rejection_messages.get('default', builtin))
RejectionMessage(rules, k) ==
    IF rules.msgs[k] # Absent THEN rules.msgs[k]
    ELSE IF rules.default # Absent THEN rules.default
    ELSE CheckerMsg.policy

\* rejection_messages.get('code', builtin)
CodeMessage(rules) == IF rules.code # Absent THEN rules.code ELSE CheckerMsg.code

\* the mutant skips no dangerous pattern under -nocode
NoCodeSkipsNothing(flags, pattern) == FALSE

\* the pattern is skipped under -nocode
NoCodeSkips(flags, pattern) ==
    /\ HasFlag(flags, "-nocode")
    /\ \E w \in NoCodeWords : Contains(pattern, w)

\* indices of the dangerous patterns on which the loop of check returns
RejectingPatterns(rules, flags, text_l) ==
    { k \in 1..Len(rules.dangerous_patterns) :
        /\ Contains(text_l, rules.dangerous_patterns[k])
        /\ ~NoCodeSkips(flags, rules.dangerous_patterns[k]) }

Min(S) == CHOOSE x \in S : \A y \in S : x <= y

\* the mutant lets the substring loop fall through to "allowed"
checkNoCodeRegex(text, rules) ==
    LET ex == extract_flags(text)
        text_l == Lower(ex.clean)
        hits == RejectingPatterns(rules, ex.flags, text_l)
    IN IF HasFlag(ex.flags, "-notrigger")
       THEN [allowed |-> TRUE, reason |-> CheckerMsg.no_trigger, raised |-> FALSE]
       ELSE IF rules.kind # "dict"
       THEN [allowed |-> FALSE, reason |-> "", raised |-> TRUE]
       ELSE IF hits # {}
       THEN [allowed |-> FALSE, reason |-> RejectionMessage(rules, Min(hits)),
             raised |-> FALSE]
       ELSE [allowed |-> TRUE, reason |-> "", raised |-> FALSE]

\* the mutant ignores the order of the dangerous patterns (last match wins)
checkLastMatch(text, rules) ==
    LET ex == extract_flags(text)
        text_l == Lower(ex.clean)
        hits == RejectingPatterns(rules, ex.flags, text_l)
        Max(S) == CHOOSE x \in S : \A y \in S : x >= y
    IN IF HasFlag(ex.flags, "-notrigger")
       THEN [allowed |-> TRUE, reason |-> CheckerMsg.no_trigger, raised |-> FALSE]
       ELSE IF rules.kind # "dict"
       THEN [allowed |-> FALSE, reason |-> "", raised |-> TRUE]
       ELSE IF hits # {}
       THEN [allowed |-> FALSE, reason |-> RejectionMessage(rules, Max(hits)),
             raised |-> FALSE]
       ELSE IF CodeRegexSearch(ex.clean) /\ ~HasFlag(ex.flags, "-nocode")
       THEN [allowed |-> FALSE, reason |-> CodeMessage(rules), raised |-> FALSE]
       ELSE [allowed |-> TRUE, reason |-> "", raised |-> FALSE]

\* SecurityChecker.check; raised: self.rules.get fails on a non-dict
check(text, rules) ==
    LET ex == extract_flags(text)
        text_l == Lower(ex.clean)
        hits == RejectingPatterns(rules, ex.flags, text_l)
    IN IF HasFlag(ex.flags, "-notrigger")
       THEN [allowed |-> TRUE, reason |-> CheckerMsg.no_trigger, raised |-> FALSE]
       ELSE IF rules.kind # "dict"
       THEN [allowed |-> FALSE, reason |-> "", raised |-> TRUE]
       ELSE IF hits # {}
       THEN [allowed |-> FALSE, reason |-> RejectionMessage(rules, Min(hits)),
             raised |-> FALSE]
       ELSE IF CodeRegexSearch(ex.clean) /\ ~HasFlag(ex.flags, "-nocode")
       THEN [allowed |-> FALSE, reason |-> CodeMessage(rules), raised |-> FALSE]
       ELSE [allowed |-> TRUE, reason |-> "", raised |-> FALSE]

(***************************************************************************)
(* EmbeddingCache: bounds and helpers.                                     *)
(***************************************************************************)
NumThreads == 2
MaxGets == 3
MaxCrashes == 1

\* executor threads that run EmbeddingCache.get_embedding
CacheThreads == 1..NumThreads

\* texts handed to get_embedding
CacheTexts == {"t1", "t2"}
NoVec == "none"

\* embedder.encode: the vector of a text
Encode(text) == IF text = "t1" THEN "v1" ELSE "v2"

\* EmbeddingCache._key: the md5 hex digest of the text (distinct texts of the
\* model have distinct digests)
Key(text) == <<"md5", text>>

\* the empty dict
EmptyCache == [k \in {} |-> NoVec]

\* the cache file: absent, a complete pickle of a dict, or a truncated /
\* partially written file
DiskAbsent == [state |-> "absent", data |-> EmptyCache]
DiskCorrupt == [state |-> "corrupt", data |-> EmptyCache]
DiskOk(d) == [state |-> "ok", data |-> d]

\* EmbeddingCache._load_cache
load_cache(d) == IF d.state = "ok" THEN d.data ELSE EmptyCache

\* self.cache[key] = emb
Put(c, k, v) == [x \in (DOMAIN c) \cup {k} |-> IF x = k THEN v ELSE c[x]]

(***************************************************************************)
(* Top-k retrieval: SmartDeepThinkRAG.find_similar_docs of the demo and    *)
(* EmbeddingsManager.find_similar.  A document is named by its position in *)
(* the corpus.                                                             *)
(***************************************************************************)
MaxDocs == 3
MaxK == 3
MaxQueries == 2

\* the embedding vectors of the model: two components, each 0 or 1
Vectors == {<<a, b>> : a \in 0..1, b \in 0..1}

\* np.dot of two vectors
Dot(u, v) == u[1] * v[1] + u[2] * v[2]

\* np.dot(self.doc_embeddings, question_embedding): one score per document;
\* numpy raises ValueError when the corpus is empty (shapes not aligned)
Similarities(embs, q) == [i \in 1..Len(embs) |-> Dot(embs[i], q)]

\* the orderings np.argsort may return for the scores: ascending, with equal
\* scores in any order (the default sort is not stable)
ArgSorts(sim) ==
    { p \in [1..Len(sim) -> 1..Len(sim)] :
        /\ \A i, j \in 1..Len(sim) : i # j => p[i] # p[j]
        /\ \A i \in 1..(Len(sim) - 1) : sim[p[i]] <= sim[p[i + 1]] }

\* Python s[-n:]
LastN(s, n) == IF n = 0 \/ n >= Len(s) THEN s ELSE SubSeq(s, Len(s) - n + 1, Len(s))

\* Python s[::-1]
Reverse(s) == [i \in 1..Len(s) |-> s[Len(s) + 1 - i]]

(***************************************************************************)
(* PriceAlertsManager (parsers/alerts_manager.py).                         *)
(***************************************************************************)
MaxPrice == 2

\* prices and target prices
Prices == 0..MaxPrice

\* alert ids: add_alert makes the id of the user, the symbol and the wall
\* clock, so that equal triples give the same id
AlertIds == {"u1_SBER_t1", "u1_SBER_t2"}

Conditions == {"above", "below", "equals"}

\* no entry under the id
NoAlert == [target_price |-> 0, condition |-> "", active |-> FALSE,
            triggered |-> FALSE, triggered_price |-> 0]

\* the entry add_alert stores (lines 21-29)
NewAlert(target_price, condition) ==
    [target_price |-> target_price, condition |-> condition, active |-> TRUE,
     triggered |-> FALSE, triggered_price |-> 0]

\* check_alert, lines 43-49
condition_met(alert, current_price) ==
    \/ alert.condition = "above" /\ current_price >= alert.target_price
    \/ alert.condition = "below" /\ current_price <= alert.target_price
    \/ alert.condition = "equals" /\ current_price = alert.target_price

\* no check_alert call has been made
NoCheck == [id |-> "", price |-> 0, result |-> FALSE]

(***************************************************************************)
(* LLMAdapter: code/SQL guard, prompt, post-processing.                    *)
(***************************************************************************)
\* max_retries of _stream_from_ollama
max_retries == 2

\* LLMAdapter._is_code_request: every keyword sits in one \b(...)\b group, the
\* two phrases are matched anywhere; IGNORECASE
IsCodeRequest(text) ==
    /\ text # <<>>
    /\ \/ \E w \in CodeWords : WordMatch(text, w)
       \/ \E p \in CodePhrasesCommon : Contains(Lower(text), p)

\* the fixed texts of the adapter; a fixed text is one token of a fragment
LLMMsg ==
    [ refusal |-> <<"[llm: cannot help with executable code or SQL]">>,
      status |-> <<"[llm: connection error with the model]">>,
      timeout |-> <<"[llm: response wait time exceeded]">>,
      connector |-> <<"[llm: could not connect to the language model]">>,
      other |-> <<"[llm: an error occurred while generating the answer]">>,
      no_context |-> <<"[information not found]">> ]

\* "akcii", "investic", "vlozhit'", "kuda vlozhit'", "portfel'", "vygodn"
InvestWords ==
    { <<"cyr_a", "cyr_k", "cyr_c", "cyr_i", "cyr_i">>,
      <<"cyr_i", "cyr_n", "cyr_v", "cyr_e", "cyr_s", "cyr_t", "cyr_i", "cyr_c">>,
      <<"cyr_v", "cyr_l", "cyr_o", "cyr_zh", "cyr_i", "cyr_t", "cyr_soft">>,
      <<"cyr_k", "cyr_u", "cyr_d", "cyr_a", " ", "cyr_v", "cyr_l", "cyr_o", "cyr_zh", "cyr_i", "cyr_t", "cyr_soft">>,
      <<"cyr_p", "cyr_o", "cyr_r", "cyr_t", "cyr_f", "cyr_e", "cyr_l", "cyr_soft">>,
      <<"cyr_v", "cyr_y", "cyr_g", "cyr_o", "cyr_d", "cyr_n">> }

\* the mutant tests the -simple flag before deep_think
PromptTemplateSimpleFirst(question, deep_think, flags) ==
    IF \E w \in InvestWords : Contains(Lower(question), w) THEN "investment"
    ELSE IF HasFlag(flags, "-simple") THEN "simple"
    ELSE IF deep_think THEN "deepthink"
    ELSE "default"

\* LLMAdapter._create_prompt: the template chosen
PromptTemplate(question, deep_think, flags) ==
    IF \E w \in InvestWords : Contains(Lower(question), w) THEN "investment"
    ELSE IF deep_think THEN "deepthink"
    ELSE IF HasFlag(flags, "-simple") THEN "simple"
    ELSE "default"

\* context_text of _create_prompt
ContextText(context_docs) == IF context_docs = <<>> THEN <<LLMMsg.no_context>> ELSE context_docs

\* LLMAdapter._create_prompt
create_prompt(question, context_docs, deep_think, flags) ==
    [template |-> PromptTemplate(question, deep_think, flags),
     question |-> question,
     context |-> ContextText(context_docs)]

NoPrompt == [template |-> "", question |-> <<>>, context |-> <<>>]

\* the filler phrases of _simplify_response: "Konechno,", "Rad pomoch'!",
\* "Vot otvet na vash vopros:", "Soglasno predostavlennoj informacii,"
Fillers ==
    << <<"cyr_K", "cyr_o", "cyr_n", "cyr_e", "cyr_ch", "cyr_n", "cyr_o", ",">>,
       <<"cyr_R", "cyr_a", "cyr_d", " ", "cyr_p", "cyr_o", "cyr_m", "cyr_o", "cyr_ch", "cyr_soft", "!">>,
       <<"cyr_V", "cyr_o", "cyr_t", " ", "cyr_o", "cyr_t", "cyr_v", "cyr_e", "cyr_t", " ", "cyr_n", "cyr_a", " ", "cyr_v", "cyr_a", "cyr_sh", " ", "cyr_v", "cyr_o", "cyr_p", "cyr_r", "cyr_o", "cyr_s", ":">>,
       <<"cyr_S", "cyr_o", "cyr_g", "cyr_l", "cyr_a", "cyr_s", "cyr_n", "cyr_o", " ", "cyr_p", "cyr_r", "cyr_e", "cyr_d", "cyr_o", "cyr_s", "cyr_t", "cyr_a", "cyr_v", "cyr_l", "cyr_e", "cyr_n", "cyr_n", "cyr_o", "cyr_j", " ", "cyr_i", "cyr_n", "cyr_f", "cyr_o", "cyr_r", "cyr_m", "cyr_a", "cyr_c", "cyr_i", "cyr_i", ",">> >>

RECURSIVE RemoveEach(_, _)
RemoveEach(text, subs) ==
    IF subs = <<>> THEN text ELSE RemoveEach(RemoveAll(text, subs[1]), Tail(subs))

\* LLMAdapter._simplify_response
simplify_response(text) == Strip(RemoveEach(text, Fillers))

\* what the backend can send as the response field of a line:
\* " ok", "ipoteka", "Konechno,"
ChunkPlain == <<" ", "o", "k">>
ChunkMortgage == <<"cyr_i", "cyr_p", "cyr_o", "cyr_t", "cyr_e", "cyr_k", "cyr_a">>
ChunkFiller == <<"cyr_K", "cyr_o", "cyr_n", "cyr_e", "cyr_ch", "cyr_n", "cyr_o", ",">>
BackendChunks == {ChunkPlain, ChunkMortgage, ChunkFiller}

(***************************************************************************)
(* SmartDeepThinkRAG / FinancialAssistant: helpers of ask_streaming.       *)
(***************************************************************************)
MaxAskPieces == 2
MaxLines == 2

\* DialogueMemory.max_messages
max_messages == 10

\* top_k passed to find_similar
top_k == 3

\* the control suffix " -deepthink"
DeepSuffix == <<" ", "-", "d", "e", "e", "p", "t", "h", "i", "n", "k">>

\* Python text[:-10]
DropLast10(text) == IF Len(text) <= 10 THEN <<>> ELSE SubSeq(text, 1, Len(text) - 10)

\* tickers looked for in the question, in loop order, lowercased
StockSymbols ==
    << <<"g", "a", "z", "p">>,
       <<"s", "b", "e", "r">>,
       <<"l", "k", "o", "h">>,
       <<"y", "n", "d", "x">>,
       <<"r", "o", "s", "n">>,
       <<"v", "t", "b", "r">> >>

\* a ticker occurs in the lowercased question
MentionsSymbol(question) ==
    \E i \in 1..Len(StockSymbols) : Contains(Lower(question), StockSymbols[i])

\* the condition of line 141
IsInvestQuestion(question) == \E w \in InvestWords : Contains(Lower(question), w)

\* "akcii"
RelevanceQuestionWordAkcii == <<"cyr_a", "cyr_k", "cyr_c", "cyr_i", "cyr_i">>

\* "akcii", "investic", "vlozhit'"
RelevanceQuestionWords ==
    { <<"cyr_a", "cyr_k", "cyr_c", "cyr_i", "cyr_i">>,
      <<"cyr_i", "cyr_n", "cyr_v", "cyr_e", "cyr_s", "cyr_t", "cyr_i", "cyr_c">>,
      <<"cyr_v", "cyr_l", "cyr_o", "cyr_zh", "cyr_i", "cyr_t", "cyr_soft">> }

\* "ipotek", "kredit na nedvizhimost'", "vklad"
OffTopicWords ==
    { <<"cyr_i", "cyr_p", "cyr_o", "cyr_t", "cyr_e", "cyr_k">>,
      <<"cyr_k", "cyr_r", "cyr_e", "cyr_d", "cyr_i", "cyr_t", " ", "cyr_n", "cyr_a", " ", "cyr_n", "cyr_e", "cyr_d", "cyr_v", "cyr_i", "cyr_zh", "cyr_i", "cyr_m", "cyr_o", "cyr_s", "cyr_t", "cyr_soft">>,
      <<"cyr_v", "cyr_k", "cyr_l", "cyr_a", "cyr_d">> }

\* SmartDeepThinkRAG._is_relevant_chunk
is_relevant_chunk(chunk, question) ==
    ~ /\ \E w \in RelevanceQuestionWords : Contains(Lower(question), w)
      /\ \E w \in OffTopicWords : Contains(Lower(chunk), w)

\* "akcii", "investic"
ResponseQuestionWords ==
    { <<"cyr_a", "cyr_k", "cyr_c", "cyr_i", "cyr_i">>,
      <<"cyr_i", "cyr_n", "cyr_v", "cyr_e", "cyr_s", "cyr_t", "cyr_i", "cyr_c">> }

\* "akci", "sber", "gazprom", "lukojl", "yandeks", "divident", "portfel'", "invest"
ResponseKeywords ==
    { <<"cyr_a", "cyr_k", "cyr_c", "cyr_i">>,
      <<"cyr_s", "cyr_b", "cyr_e", "cyr_r">>,
      <<"cyr_g", "cyr_a", "cyr_z", "cyr_p", "cyr_r", "cyr_o", "cyr_m">>,
      <<"cyr_l", "cyr_u", "cyr_k", "cyr_o", "cyr_j", "cyr_l">>,
      <<"cyr_ya", "cyr_n", "cyr_d", "cyr_e", "cyr_k", "cyr_s">>,
      <<"cyr_d", "cyr_i", "cyr_v", "cyr_i", "cyr_d", "cyr_e", "cyr_n", "cyr_t">>,
      <<"cyr_p", "cyr_o", "cyr_r", "cyr_t", "cyr_f", "cyr_e", "cyr_l", "cyr_soft">>,
      <<"cyr_i", "cyr_n", "cyr_v", "cyr_e", "cyr_s", "cyr_t">> }

\* SmartDeepThinkRAG._is_response_relevant
is_response_relevant(response, question) ==
    /\ \E w \in ResponseQuestionWords : Contains(Lower(question), w)
    /\ \E k \in ResponseKeywords : Contains(Lower(response), k)

\* the keywords on which FinancialAssistant._handle_financial_question answers
\* the question itself (lines 75, 96, 117, 121, 125)
FinancialKeywords ==
    { <<"cyr_s", "cyr_t", "cyr_a", "cyr_v", "cyr_k">>,
      <<"cyr_k", "cyr_l", "cyr_yu", "cyr_ch", "cyr_e", "cyr_v">>,
      <<"cyr_c", "cyr_b">>,
      <<"cyr_c", "cyr_e", "cyr_n", "cyr_t", "cyr_r", "cyr_o", "cyr_b", "cyr_a", "cyr_n", "cyr_k">>,
      <<"cyr_p", "cyr_r", "cyr_o", "cyr_c", "cyr_e", "cyr_n", "cyr_t">>,
      <<"cyr_a", "cyr_k", "cyr_c", "cyr_i">>,
      <<"cyr_t", "cyr_i", "cyr_k", "cyr_e", "cyr_r">>,
      <<"cyr_k", "cyr_o", "cyr_t", "cyr_i", "cyr_r", "cyr_o", "cyr_v", "cyr_k">>,
      <<"cyr_c", "cyr_e", "cyr_n", "cyr_a", " ", "cyr_a", "cyr_k", "cyr_c", "cyr_i">>,
      <<"cyr_k", "cyr_u", "cyr_r", "cyr_s">>,
      <<"cyr_v", "cyr_a", "cyr_l", "cyr_yu", "cyr_t">>,
      <<"cyr_d", "cyr_o", "cyr_l", "cyr_l", "cyr_a", "cyr_r">>,
      <<"cyr_e", "cyr_v", "cyr_r", "cyr_o">>,
      <<"u", "s", "d">>,
      <<"e", "u", "r">>,
      <<"cyr_b", "cyr_i", "cyr_r", "cyr_zh", "cyr_a">>,
      <<"cyr_r", "cyr_y", "cyr_n", "cyr_o", "cyr_k">>,
      <<"cyr_i", "cyr_n", "cyr_d", "cyr_e", "cyr_k", "cyr_s">>,
      <<"cyr_s", "cyr_v", "cyr_o", "cyr_d", "cyr_k">>,
      <<"cyr_m", "cyr_o", "cyr_s", "cyr_b", "cyr_i", "cyr_r", "cyr_zh">>,
      <<"cyr_f", "cyr_i", "cyr_n", "cyr_a", "cyr_n", "cyr_s">>,
      <<"cyr_s", "cyr_b", "cyr_e", "cyr_r", "cyr_b", "cyr_a", "cyr_n", "cyr_k">>,
      <<"cyr_g", "cyr_a", "cyr_z", "cyr_p", "cyr_r", "cyr_o", "cyr_m">>,
      <<"cyr_l", "cyr_u", "cyr_k", "cyr_o", "cyr_j", "cyr_l">>,
      <<"cyr_v", "cyr_t", "cyr_b">>,
      <<"cyr_r", "cyr_o", "cyr_s", "cyr_n", "cyr_e", "cyr_f", "cyr_t", "cyr_soft">> }

\* _handle_financial_question returns a text (not None)
IsFinancialQuestion(question) ==
    \E w \in FinancialKeywords : Contains(Lower(question), w)

\* Python documents[:k]
Take(docs, k) == SubSeq(docs, 1, IF Len(docs) < k THEN Len(docs) ELSE k)

\* EmbeddingsManager.find_similar of src/src/embeddings_manager.py, which takes
\* the five arguments ask_streaming passes
find_similar_legacy(documents, k) ==
    IF documents = <<>> THEN <<"[nothing found in the knowledge base]">> ELSE Take(documents, k)

\* fixed fragments of ask_streaming; a fixed text is one token of a fragment
Frag ==
    [ deep_banner |-> <<"[deepthink mode activated]">>,
      separator |-> <<"[==========]">>,
      rejected_notice |-> <<"[request rejected by the security policy]">>,
      analysis_header |-> <<"[financial analysis:]">>,
      main_answer_header |-> <<"[main answer:]">>,
      simple_header |-> <<"[simple mode]">>,
      answer_header |-> <<"[answer:]">>,
      recommend_header |-> <<"[based on the analysis I recommend:]">>,
      recommend_stock |-> <<"[recommended stock]">>,
      timing |-> <<"[response time]">>,
      financial_header |-> <<"[financial answer:]">>,
      financial_response |-> <<"[financial data response]">> ]

FragSecurityAnalysis(reason) == <<"[security analysis:]", reason>>
FragDeepAnalysis(question) == <<"[deepthink analysis of:]">> \o question
FragStockLine(n) == <<"[stock analysis line]", n>>
FragError(detail) == <<"[an error occurred:]", detail>>

\* texts of the exceptions that reach the except clause of ask_streaming
Err ==
    [ rules_not_dict |-> "AttributeError: 'list' object has no attribute 'get'",
      embedding |-> "RuntimeError: could not get the embedding",
      find_similar |-> "TypeError: find_similar() takes from 2 to 4 positional arguments but 5 were given",
      market_fallback |-> "AttributeError: no attribute '_get_fallback_data'",
      strategy |-> "AttributeError: no attribute '_generate_strategy_recommendation'" ]

(***************************************************************************)
(* Input texts: concatenations of a few pieces.                            *)
(***************************************************************************)
PieceWord == <<"x">>
PieceSpace == <<" ">>
PieceSqlUpper == <<"S", "Q", "L">>
PieceSimHead == <<"-", "s", "i", "m">>
PieceSimTail == <<"p", "l", "e">>

GatePieces ==
    { PieceWord, PieceSpace, PatSql, PieceSqlUpper, PatHack,
      FlagChars("-notrigger"), FlagChars("-nocode"), FlagChars("-nodeep"),
      FlagChars("-simple"), PieceSimHead, PieceSimTail }

GateTexts == { Flatten(ps) : ps \in SeqsUpTo(GatePieces, MaxPieces) }

(***************************************************************************)
(* State.                                                                  *)
(***************************************************************************)
VARIABLES
    \* SecurityChecker
    rules,       \* SecurityChecker.rules
    gRaw,        \* the text handed to the SecurityChecker called on its own
    gExtDone,    \* _extract_flags(gRaw) has returned
    gExt,        \* its result (clean_text, flags_found)
    gCheckDone,  \* check(gRaw) has returned or raised
    gVerdict,    \* its result (allowed, reason) or the raise
    \* EmbeddingCache
    up,          \* the process is running
    cache,       \* EmbeddingCache.cache: key -> vector
    disk,        \* the file embeddings_cache.pkl
    ct,          \* per thread: position in get_embedding, its text and vector
    encodeCalls, \* per text: calls of embedder.encode made for it
    returned,    \* every (text, vector, class) a get_embedding call has returned
    gets,        \* get_embedding calls started
    crashes,     \* process crashes so far
    \* LLMAdapter.generate_answer_streaming
    lpc,         \* position: "idle", "guard", "post", "read", "yielded", "done", ...
    caller,      \* who consumes the generator: "ask_streaming" or "direct"
    lQuestion,   \* argument question
    lDocs,       \* argument context_docs
    lDeep,       \* argument deep_think
    lFlags,      \* argument flags
    prompt,      \* the prompt built by _create_prompt
    attempt,     \* loop variable of _stream_from_ollama
    posts,       \* POST requests sent to the backend in this call
    connOpen,    \* a connection to the backend is open
    lines,       \* lines read from the backend in this call
    refused,     \* POSTs of this call answered by a non-success status or a timeout
    yielded,     \* the fragments the generator has yielded
    \* SmartDeepThinkRAG / FinancialAssistant
    apc,         \* position of ask_streaming
    question,    \* the raw question of the session
    mgrRev,      \* which EmbeddingsManager revision is installed
    finParser,   \* FinancialAssistant.financial_parser is not None
    documents,   \* self.documents
    clean_question,
    flags,
    deepthink_mode,
    verdict,     \* (is_safe, reason) of security.check
    similar_docs,
    investment_analysis,  \* "none", "error" or "stock"
    full_response,
    out,         \* the fragments the caller of ask_streaming has received
    memory,      \* DialogueMemory.messages
    memAt,       \* fragments the caller had received when memory was history to
    encoded,     \* the texts passed to model.encode by get_embedding, in order
    marketCalls, \* calls to the market-data backend
    \* retrieval called on its own
    rpc,            \* "idle", "called", "returned", "placeholder" or "raised"
    doc_embeddings, \* one vector per document of the corpus, in corpus order
    q_embedding,    \* the vector of the question
    rk,             \* the argument top_k
    top_indices,    \* the corpus positions of the documents returned, in order
    points,         \* the Qdrant collection: corpus positions in the order of the point ids
    results,        \* what the calls of find_similar (Qdrant revision) have returned
    \* DialogueMemory called on its own (its messages are in memory)
    history,       \* every message add_message was called with, in call order
    context,        \* what the last get_context call returned
    \* PriceAlertsManager
    alerts,         \* self.alerts: the alert stored under each id, or NoAlert
    alertRet,       \* the last check_alert call: its alert id, its price and what it returned
    fired           \* per id: the check_alert calls that returned True since the alert was added

gateVars == <<rules, gRaw, gExtDone, gExt, gCheckDone, gVerdict>>
cacheVars == <<up, cache, disk, ct, encodeCalls, returned, gets, crashes>>
llmVars == <<lpc, caller, lQuestion, lDocs, lDeep, lFlags, prompt, attempt, posts,
             connOpen, lines, refused, yielded>>
\* the part of the orchestrator state that consuming a fragment leaves alone
askRest == <<apc, question, mgrRev, finParser, documents, clean_question, flags,
             deepthink_mode, verdict, similar_docs, investment_analysis, memory,
             memAt, encoded, marketCalls>>
askVars == <<askRest, full_response, out>>

retrVars == <<rpc, doc_embeddings, q_embedding, rk, top_indices, points, results>>
\* the components exercised on their own, apart from the pipeline
alertVars == <<alerts, alertRet, fired>>
unitVars == <<retrVars, history, context, alertVars>>

vars == <<gateVars, cacheVars, llmVars, askVars, unitVars>>

\* PriceAlertsManager.__init__
AlertsInit ==
    /\ alerts = [id \in AlertIds |-> NoAlert]
    /\ alertRet = NoCheck
    /\ fired = [id \in AlertIds |-> 0]

(***************************************************************************)
(* SecurityChecker called on its own.                                      *)
(***************************************************************************)
NoExt == [clean |-> <<>>, flags |-> <<>>]
NoVerdict == [allowed |-> FALSE, reason |-> "", raised |-> FALSE]

GateInit ==
    /\ rules \in RuleSets
    /\ gRaw \in GateTexts
    /\ gExtDone = FALSE
    /\ gExt = NoExt
    /\ gCheckDone = FALSE
    /\ gVerdict = NoVerdict

\* the SecurityChecker is not exercised on its own
GateIdle ==
    /\ gRaw = <<>>
    /\ gExtDone = FALSE
    /\ gExt = NoExt
    /\ gCheckDone = FALSE
    /\ gVerdict = NoVerdict

\* a caller runs SecurityChecker._extract_flags on the text
CallExtractFlags ==
    /\ ~gExtDone
    /\ gExtDone' = TRUE
    /\ gExt' = extract_flags(gRaw)
    /\ UNCHANGED <<rules, gRaw, gCheckDone, gVerdict>>
    /\ UNCHANGED <<unitVars, cacheVars, llmVars, askVars>>

\* a caller runs SecurityChecker.check on the text
CallCheck ==
    /\ ~gCheckDone
    /\ gCheckDone' = TRUE
    /\ gVerdict' = check(gRaw, rules)
    /\ UNCHANGED <<rules, gRaw, gExtDone, gExt>>
    /\ UNCHANGED <<unitVars, cacheVars, llmVars, askVars>>

(***************************************************************************)
(* EmbeddingCache.                                                         *)
(***************************************************************************)
IdleThread == [pc |-> "idle", text |-> "", emb |-> NoVec]

\* EmbeddingCache.__init__: the cache is loaded from the file, which may be
\* absent or hold the entries of an earlier run
CacheInit ==
    /\ up = TRUE
    /\ disk \in {DiskAbsent, DiskOk(Put(EmptyCache, Key("t1"), "v1"))}
    /\ cache = load_cache(disk)
    /\ ct = [th \in CacheThreads |-> IdleThread]
    /\ encodeCalls = [t \in CacheTexts |-> 0]
    /\ returned = {}
    /\ gets = 0
    /\ crashes = 0

\* the EmbeddingCache is not exercised
CacheIdle ==
    /\ up = TRUE
    /\ disk = DiskAbsent
    /\ cache = EmptyCache
    /\ ct = [th \in CacheThreads |-> IdleThread]
    /\ encodeCalls = [t \in CacheTexts |-> 0]
    /\ returned = {}
    /\ gets = 0
    /\ crashes = 0

\* get_embedding, lines 34-36: the key is looked up; a hit returns at once
GetLookup(th, text) ==
    /\ up
    /\ ct[th].pc = "idle"
    /\ gets < MaxGets
    /\ gets' = gets + 1
    /\ IF Key(text) \in DOMAIN cache
       THEN /\ returned' = returned \cup {<<text, cache[Key(text)], "EmbeddingCache">>}
            /\ ct' = ct
       ELSE /\ ct' = [ct EXCEPT ![th] = [pc |-> "encode", text |-> text, emb |-> NoVec]]
            /\ returned' = returned
    /\ UNCHANGED <<up, cache, disk, encodeCalls, crashes>>
    /\ UNCHANGED <<unitVars, gateVars, llmVars, askVars>>

\* get_embedding, lines 38-41: the embedder is called and the vector stored
EncodeStore(th) ==
    /\ up
    /\ ct[th].pc = "encode"
    /\ encodeCalls' = [encodeCalls EXCEPT ![ct[th].text] = @ + 1]
    /\ cache' = Put(cache, Key(ct[th].text), Encode(ct[th].text))
    /\ ct' = [ct EXCEPT ![th].pc = "save", ![th].emb = Encode(ct[th].text)]
    /\ UNCHANGED <<up, disk, returned, gets, crashes>>
    /\ UNCHANGED <<unitVars, gateVars, llmVars, askVars>>

\* get_embedding, line 39: embedder.encode raises and the call fails
EncodeFails(th) ==
    /\ up
    /\ ct[th].pc = "encode"
    /\ encodeCalls' = [encodeCalls EXCEPT ![ct[th].text] = @ + 1]
    /\ ct' = [ct EXCEPT ![th] = IdleThread]
    /\ UNCHANGED <<up, cache, disk, returned, gets, crashes>>
    /\ UNCHANGED <<unitVars, gateVars, llmVars, askVars>>

\* _save_cache, line 25: open(cache_file, 'wb') truncates the file, or fails
\* and the exception is swallowed (lines 27-28)
SaveOpen(th, ok) ==
    /\ up
    /\ ct[th].pc = "save"
    /\ IF ok
       THEN /\ disk' = DiskCorrupt
            /\ ct' = [ct EXCEPT ![th].pc = "dump"]
       ELSE /\ disk' = disk
            /\ ct' = [ct EXCEPT ![th].pc = "ret"]
    /\ UNCHANGED <<up, cache, encodeCalls, returned, gets, crashes>>
    /\ UNCHANGED <<unitVars, gateVars, llmVars, askVars>>

\* _save_cache, line 26: pickle.dump writes the whole dict, or fails part-way
\* and the exception is swallowed (lines 27-28)
SaveDump(th, ok) ==
    /\ up
    /\ ct[th].pc = "dump"
    /\ disk' = IF ok THEN DiskOk(cache) ELSE DiskCorrupt
    /\ ct' = [ct EXCEPT ![th].pc = "ret"]
    /\ UNCHANGED <<up, cache, encodeCalls, returned, gets, crashes>>
    /\ UNCHANGED <<unitVars, gateVars, llmVars, askVars>>

\* get_embedding, line 43: the miss returns the computed vector
GetReturn(th) ==
    /\ up
    /\ ct[th].pc = "ret"
    /\ returned' = returned \cup {<<ct[th].text, ct[th].emb, "EmbeddingCache">>}
    /\ ct' = [ct EXCEPT ![th] = IdleThread]
    /\ UNCHANGED <<up, cache, disk, encodeCalls, gets, crashes>>
    /\ UNCHANGED <<unitVars, gateVars, llmVars, askVars>>

\* EmbeddingsManager.get_embedding (embeddings_manager.py, lines 59-69), the
\* call ask_streaming makes for a question: model.encode runs on every call,
\* the EmbeddingCache is neither read nor written; a failure is raised
ManagerGetEmbedding(text, ok) ==
    /\ up
    /\ gets < MaxGets
    /\ gets' = gets + 1
    /\ encodeCalls' = [encodeCalls EXCEPT ![text] = @ + 1]
    /\ returned' = IF ok THEN returned \cup {<<text, Encode(text), "EmbeddingsManager">>} ELSE returned
    /\ UNCHANGED <<up, cache, disk, ct, crashes>>
    /\ UNCHANGED <<unitVars, gateVars, llmVars, askVars>>

\* the process dies: everything in memory is lost, the file stays as it is
Crash ==
    /\ up
    /\ crashes < MaxCrashes
    /\ crashes' = crashes + 1
    /\ up' = FALSE
    /\ cache' = EmptyCache
    /\ ct' = [th \in CacheThreads |-> IdleThread]
    /\ UNCHANGED <<disk, encodeCalls, returned, gets>>
    /\ UNCHANGED <<unitVars, gateVars, llmVars, askVars>>

\* the process starts again: EmbeddingCache.__init__ loads the file
Restart ==
    /\ ~up
    /\ up' = TRUE
    /\ cache' = load_cache(disk)
    /\ UNCHANGED <<disk, ct, encodeCalls, returned, gets, crashes>>
    /\ UNCHANGED <<unitVars, gateVars, llmVars, askVars>>

(***************************************************************************)
(* LLMAdapter.generate_answer_streaming and _stream_from_ollama.           *)
(***************************************************************************)
\* a consumer other than ask_streaming iterates over the generator
LLMInit ==
    /\ lpc = "guard"
    /\ caller = "direct"
    /\ lQuestion \in {PieceWord, PatSql, RelevanceQuestionWordAkcii}
    /\ lDocs \in {<<>>, <<"d1">>}
    /\ lDeep \in BOOLEAN
    /\ lFlags \in {<<>>, <<"-nocode">>, <<"-simple">>}
    /\ prompt = NoPrompt
    /\ attempt = 0
    /\ posts = 0
    /\ connOpen = FALSE
    /\ lines = 0
    /\ refused = 0
    /\ yielded = <<>>

\* no generation is running
LLMIdle ==
    /\ lpc = "idle"
    /\ caller = "direct"
    /\ lQuestion = <<>>
    /\ lDocs = <<>>
    /\ lDeep = FALSE
    /\ lFlags = <<>>
    /\ prompt = NoPrompt
    /\ attempt = 0
    /\ posts = 0
    /\ connOpen = FALSE
    /\ lines = 0
    /\ refused = 0
    /\ yielded = <<>>

\* the mutant forwards a relevant chunk twice
ConsumeTwice(frag) ==
    /\ yielded' = Append(yielded, frag)
    /\ full_response' = full_response \o frag
    /\ out' = IF caller = "ask_streaming" /\ is_relevant_chunk(frag, clean_question)
              THEN out \o <<frag, frag>>
              ELSE out

\* the generator yields a fragment and its consumer takes it: ask_streaming
\* forwards a relevant chunk and adds every chunk to full_response (lines
\* 198-203); any other consumer only accumulates (generate_answer, 176-178)
Consume(frag) ==
    /\ yielded' = Append(yielded, frag)
    /\ full_response' = full_response \o frag
    /\ out' = IF caller = "ask_streaming" /\ is_relevant_chunk(frag, clean_question)
              THEN Append(out, frag)
              ELSE out

NoConsume == UNCHANGED <<yielded, full_response, out>>

\* what generate_answer_streaming yields for a chunk of _stream_from_ollama
PostProcess(chunk) ==
    IF HasFlag(lFlags, "-simple") THEN simplify_response(chunk) ELSE chunk

\* the mutant retries once more: "attempt <= max_retries"
RetryOrGiveUpOnceMore(message) ==
    IF attempt <= max_retries
    THEN /\ attempt' = attempt + 1
         /\ lpc' = "post"
         /\ NoConsume
    ELSE /\ attempt' = attempt
         /\ lpc' = "done"
         /\ Consume(PostProcess(message))

\* "if attempt < max_retries: sleep; continue / else: yield message; return"
RetryOrGiveUp(message) ==
    IF attempt < max_retries
    THEN /\ attempt' = attempt + 1
         /\ lpc' = "post"
         /\ NoConsume
    ELSE /\ attempt' = attempt
         /\ lpc' = "done"
         /\ Consume(PostProcess(message))

\* generate_answer_streaming, lines 57-64: the code/SQL guard, then the prompt
LLMGuard ==
    /\ lpc = "guard"
    /\ IF IsCodeRequest(lQuestion) /\ ~HasFlag(lFlags, "-nocode")
       THEN /\ Consume(LLMMsg.refusal)
            /\ lpc' = "done"
            /\ prompt' = prompt
       ELSE /\ NoConsume
            /\ lpc' = "post"
            /\ prompt' = create_prompt(lQuestion, lDocs, lDeep, lFlags)
    /\ UNCHANGED <<caller, lQuestion, lDocs, lDeep, lFlags, attempt, posts, connOpen,
                   lines, refused>>
    /\ UNCHANGED <<unitVars, gateVars, cacheVars, askRest>>

\* _stream_from_ollama, lines 105-119 and 150-169: one POST and what comes
\* back before the first line is read
LLMPost(outcome) ==
    /\ lpc = "post"
    /\ posts' = posts + 1
    /\ refused' = IF outcome \in {"status", "timeout"} THEN refused + 1 ELSE refused
    /\ CASE outcome = "ok" ->
              /\ connOpen' = TRUE
              /\ lpc' = "read"
              /\ attempt' = attempt
              /\ NoConsume
         [] outcome = "status" ->
              /\ connOpen' = FALSE
              /\ RetryOrGiveUp(LLMMsg.status)
         [] outcome = "timeout" ->
              /\ connOpen' = FALSE
              /\ RetryOrGiveUp(LLMMsg.timeout)
         [] outcome = "connector" ->
              /\ connOpen' = FALSE
              /\ attempt' = attempt
              /\ lpc' = "done"
              /\ Consume(PostProcess(LLMMsg.connector))
         [] outcome = "error" ->
              /\ connOpen' = FALSE
              /\ RetryOrGiveUp(LLMMsg.other)
    /\ UNCHANGED <<caller, lQuestion, lDocs, lDeep, lFlags, prompt, lines>>
    /\ UNCHANGED <<unitVars, gateVars, cacheVars, askRest>>

\* _stream_from_ollama, lines 124-145: one line of the open response.
\* "chunk": a JSON object with a non-empty response, which is yielded (the
\* generator then stands at the yield of line 140 until it is resumed); "skip":
\* an empty line, unparseable JSON or an empty response
LLMReadChunk(chunk) ==
    /\ lpc \in {"read", "yielded"}
    /\ lines < MaxLines
    /\ lines' = lines + 1
    /\ lpc' = "yielded"
    /\ Consume(PostProcess(chunk))
    /\ UNCHANGED <<caller, lQuestion, lDocs, lDeep, lFlags, prompt, attempt, posts,
                   connOpen, refused>>
    /\ UNCHANGED <<unitVars, gateVars, cacheVars, askRest>>

LLMReadSkip ==
    /\ lpc \in {"read", "yielded"}
    /\ lines < MaxLines
    /\ lines' = lines + 1
    /\ lpc' = "read"
    /\ NoConsume
    /\ UNCHANGED <<caller, lQuestion, lDocs, lDeep, lFlags, prompt, attempt, posts,
                   connOpen, refused>>
    /\ UNCHANGED <<unitVars, gateVars, cacheVars, askRest>>

\* the mutant treats the done frame as a failure of the attempt
LLMStreamEndRetries ==
    /\ lpc \in {"read", "yielded"}
    /\ lpc' = "post"
    /\ attempt' = attempt
    /\ connOpen' = FALSE
    /\ NoConsume
    /\ UNCHANGED <<caller, lQuestion, lDocs, lDeep, lFlags, prompt, posts,
                   lines, refused>>
    /\ UNCHANGED <<unitVars, gateVars, cacheVars, askRest>>

\* lines 134-136 and 147-148: the done frame, or the end of the response body
LLMStreamEnd ==
    /\ lpc \in {"read", "yielded"}
    /\ lpc' = "done"
    /\ connOpen' = FALSE
    /\ NoConsume
    /\ UNCHANGED <<caller, lQuestion, lDocs, lDeep, lFlags, prompt, attempt, posts,
                   lines, refused>>
    /\ UNCHANGED <<unitVars, gateVars, cacheVars, askRest>>

\* lines 150-169 while reading: the read times out ("read_timeout"), fails
\* ("read_error": connection reset), or delivers a line that is not UTF-8
\* ("undecodable": decode() of line 126 raises outside the inner try, so the
\* except clause of line 162 takes it): the loop goes on to the next attempt
LLMStreamFails(event) ==
    /\ lpc \in {"read", "yielded"}
    /\ refused' = refused
    /\ connOpen' = FALSE
    /\ RetryOrGiveUp(IF event = "read_timeout" THEN LLMMsg.timeout ELSE LLMMsg.other)
    /\ UNCHANGED <<caller, lQuestion, lDocs, lDeep, lFlags, prompt, posts, lines>>
    /\ UNCHANGED <<unitVars, gateVars, cacheVars, askRest>>

\* the task that drives the generator is cancelled while _stream_from_ollama
\* awaits the POST, the retry delay or the next line: CancelledError is not an
\* Exception, so no except clause of lines 142-169 or 81 takes it; it leaves
\* both "async with" blocks, which release the response and close the session
\* (line 43)
LLMCancel ==
    /\ lpc \in {"post", "read"}
    /\ lpc' = "cancelled"
    /\ connOpen' = FALSE
    /\ NoConsume
    /\ UNCHANGED <<caller, lQuestion, lDocs, lDeep, lFlags, prompt, attempt, posts,
                   lines, refused>>
    /\ UNCHANGED <<unitVars, gateVars, cacheVars, askRest>>

\* the consumer stops pulling while the generator stands at the yield of line
\* 140, inside both "async with" blocks: nothing runs in the generator, and no
\* consumer of this repository calls aclose()
LLMAbandon ==
    /\ lpc = "yielded"
    /\ lpc' = "abandoned"
    /\ NoConsume
    /\ UNCHANGED <<caller, lQuestion, lDocs, lDeep, lFlags, prompt, attempt, posts,
                   connOpen, lines, refused>>
    /\ UNCHANGED <<unitVars, gateVars, cacheVars, askRest>>

\* the runtime finalises the abandoned generator at a time of its choosing:
\* GeneratorExit is raised at the yield and leaves both "async with" blocks
LLMFinalize ==
    /\ lpc = "abandoned"
    /\ lpc' = "closed"
    /\ connOpen' = FALSE
    /\ NoConsume
    /\ UNCHANGED <<caller, lQuestion, lDocs, lDeep, lFlags, prompt, attempt, posts,
                   lines, refused>>
    /\ UNCHANGED <<unitVars, gateVars, cacheVars, askRest>>

(***************************************************************************)
(* SmartDeepThinkRAG.ask_streaming / FinancialAssistant.ask_streaming.     *)
(***************************************************************************)
NoAskVerdict == [allowed |-> TRUE, reason |-> "", raised |-> FALSE]

\* the questions put to ask_streaming: "sql", "vzlom", "akcii", "sber", the
\* flags and the control suffix
AskPieces ==
    { PatSql, PatHack, RelevanceQuestionWordAkcii, StockSymbols[2],
      FlagChars("-notrigger"), FlagChars("-nocode"), FlagChars("-nodeep"),
      FlagChars("-simple"), DeepSuffix }

AskTexts == { Flatten(ps) : ps \in SeqsUpTo(AskPieces, MaxAskPieces) }

\* the installations considered: the rule file found at startup, the
\* EmbeddingsManager revision installed ("qdrant" is
\* src/ai_assistant/src/embeddings_manager.py, "legacy" is
\* src/src/embeddings_manager.py), whether the assistant is a
\* FinancialAssistant with a parser, and the knowledge base
Installation(r, m, f, d) == [rules |-> r, mgrRev |-> m, finParser |-> f, documents |-> d]

Installations ==
    { Installation(RulesFull, "legacy", FALSE, <<"d1">>),
      Installation(RulesFull, "legacy", TRUE, <<"d1", "d2", "d3", "d4">>),
      Installation(RulesMissing, "legacy", FALSE, <<>>),
      Installation(RulesFull, "qdrant", TRUE, <<"d1">>),
      Installation(RulesNotDict, "legacy", FALSE, <<"d1", "d2", "d3", "d4">>) }

\* no question is being answered
AskIdle ==
    /\ apc = "idle"
    /\ question = <<>>
    /\ mgrRev = "legacy"
    /\ finParser = FALSE
    /\ documents = <<>>
    /\ clean_question = <<>>
    /\ flags = <<>>
    /\ deepthink_mode = FALSE
    /\ verdict = NoAskVerdict
    /\ similar_docs = <<>>
    /\ investment_analysis = "none"
    /\ full_response = <<>>
    /\ out = <<>>
    /\ memory = <<>>
    /\ memAt = 0
    /\ encoded = <<>>
    /\ marketCalls = 0

\* the assistant is constructed (SmartDeepThinkRAG.__init__ or
\* FinancialAssistant.__init__) and a caller holds a question
AskInit ==
    /\ apc = "idle"
    /\ question \in AskTexts
    /\ \E i \in Installations :
          /\ rules = i.rules
          /\ mgrRev = i.mgrRev
          /\ finParser = i.finParser
          /\ documents = i.documents
    /\ clean_question = <<>>
    /\ flags = <<>>
    /\ deepthink_mode = FALSE
    /\ verdict = NoAskVerdict
    /\ similar_docs = <<>>
    /\ investment_analysis = "none"
    /\ full_response = <<>>
    /\ out = <<>>
    /\ memory = <<>>
    /\ memAt = 0
    /\ encoded = <<>>
    /\ marketCalls = 0

\* the mutant evicts the newest message instead of the oldest
add_messageDropsNewest(messages, role, content) ==
    LET appended == Append(messages, [role |-> role, content |-> content])
    IN IF Len(appended) > max_messages THEN messages ELSE appended

\* DialogueMemory.add_message
add_message(messages, role, content) ==
    LET appended == Append(messages, [role |-> role, content |-> content])
    IN IF Len(appended) > max_messages THEN Tail(appended) ELSE appended

\* the mutant handles the exception and starts the request again
FailRestarts(detail) ==
    /\ out' = Append(out, FragError(detail))
    /\ apc' = "received"

\* the except clause of ask_streaming (lines 222-224)
Fail(detail) ==
    /\ out' = Append(out, FragError(detail))
    /\ apc' = "failed"

\* ask_streaming is called (line 108 / financial_assistant.py line 42)
AskCall ==
    /\ apc = "idle"
    /\ apc' = "received"
    /\ UNCHANGED <<question, mgrRev, finParser, documents, clean_question, flags,
                   deepthink_mode, verdict, similar_docs, investment_analysis,
                   full_response, out, memory, memAt, encoded, marketCalls>>
    /\ UNCHANGED <<unitVars, gateVars, cacheVars, llmVars>>

\* FinancialAssistant.ask_streaming, lines 44-55: a financial question is
\* answered from the market-data parsers, anything else goes to the base class
FinancialStep ==
    /\ apc = "received"
    /\ IF finParser /\ IsFinancialQuestion(question)
       THEN /\ marketCalls' = marketCalls + 1
            /\ out' = out \o <<Frag.financial_header, Frag.financial_response, Frag.timing>>
            /\ apc' = "completed"
       ELSE /\ marketCalls' = marketCalls
            /\ out' = out
            /\ apc' = "base"
    /\ UNCHANGED <<question, mgrRev, finParser, documents, clean_question, flags,
                   deepthink_mode, verdict, similar_docs, investment_analysis,
                   full_response, memory, memAt, encoded>>
    /\ UNCHANGED <<unitVars, gateVars, cacheVars, llmVars>>

\* ask_streaming, lines 111-118: the flags, the deepthink mode, the banner
ExtractFlagsStep ==
    /\ apc = "base"
    /\ LET ex == extract_flags(question)
           deep == EndsWith(question, DeepSuffix) /\ ~HasFlag(ex.flags, "-nodeep")
       IN /\ flags' = ex.flags
          /\ deepthink_mode' = deep
          /\ clean_question' = IF deep THEN Strip(DropLast10(ex.clean)) ELSE ex.clean
          /\ out' = IF deep THEN out \o <<Frag.deep_banner, Frag.separator>> ELSE out
    /\ apc' = "flags_extracted"
    /\ UNCHANGED <<question, mgrRev, finParser, documents, verdict, similar_docs,
                   investment_analysis, full_response, memory, memAt, encoded,
                   marketCalls>>
    /\ UNCHANGED <<unitVars, gateVars, cacheVars, llmVars>>

\* the mutant yields the bare reason in deepthink mode too
RejectionFragmentsPlain(deep, reason) == << <<reason>> >>

\* ask_streaming, lines 123-128: what is yielded for a rejected question
RejectionFragments(deep, reason) ==
    IF deep
    THEN <<FragSecurityAnalysis(reason), Frag.rejected_notice, Frag.separator>>
    ELSE << <<reason>> >>

\* ask_streaming, lines 120-129: security.check on the raw question
SafetyCheckStep ==
    /\ apc = "flags_extracted"
    /\ LET v == check(question, rules)
       IN /\ verdict' = v
          /\ IF v.raised THEN Fail(Err.rules_not_dict)
             ELSE IF ~v.allowed
             THEN /\ apc' = "rejected"
                  /\ out' = out \o RejectionFragments(deepthink_mode, v.reason)
             ELSE /\ apc' = "checked"
                  /\ out' = out
    /\ UNCHANGED <<question, mgrRev, finParser, documents, clean_question, flags,
                   deepthink_mode, similar_docs, investment_analysis, full_response,
                   memory, memAt, encoded, marketCalls>>
    /\ UNCHANGED <<unitVars, gateVars, cacheVars, llmVars>>

\* ask_streaming, line 132: EmbeddingsManager.get_embedding calls model.encode
\* in the executor; a failure is raised as RuntimeError
EmbedStep(ok) ==
    /\ apc = "checked"
    /\ encoded' = Append(encoded, clean_question)
    /\ IF ok THEN apc' = "embedded" /\ out' = out ELSE Fail(Err.embedding)
    /\ UNCHANGED <<question, mgrRev, finParser, documents, clean_question, flags,
                   deepthink_mode, verdict, similar_docs, investment_analysis,
                   full_response, memory, memAt, marketCalls>>
    /\ UNCHANGED <<unitVars, gateVars, cacheVars, llmVars>>

\* ask_streaming, lines 133-135: find_similar is called with five positional
\* arguments and top_k=3; the "qdrant" revision takes at most three
RetrieveStep ==
    /\ apc = "embedded"
    /\ IF mgrRev = "qdrant"
       THEN /\ Fail(Err.find_similar)
            /\ similar_docs' = similar_docs
       ELSE /\ similar_docs' = find_similar_legacy(documents, top_k)
            /\ apc' = "retrieved"
            /\ out' = out
    /\ UNCHANGED <<question, mgrRev, finParser, documents, clean_question, flags,
                   deepthink_mode, verdict, investment_analysis, full_response,
                   memory, memAt, encoded, marketCalls>>
    /\ UNCHANGED <<unitVars, gateVars, cacheVars, llmVars>>

\* ask_streaming, lines 137-152 with _get_real_market_data and StockAnalyzer:
\* market tells what the market-data parser did for the ticker asked about:
\* "data", "nodata" (an error record) or "exception"
InvestStep(market) ==
    /\ apc = "retrieved"
    /\ IF ~IsInvestQuestion(clean_question)
       THEN /\ investment_analysis' = "none"
            /\ marketCalls' = marketCalls
            /\ apc' = "analysed"
            /\ out' = out
       ELSE /\ marketCalls' = marketCalls + 1
            /\ IF market = "exception"
               \* lines 289 and 296 call _get_fallback_data, which does not exist
               THEN /\ Fail(Err.market_fallback)
                    /\ investment_analysis' = investment_analysis
               ELSE IF ~MentionsSymbol(clean_question)
               \* stock_analyzer.py line 115 calls a method that does not exist
               THEN /\ Fail(Err.strategy)
                    /\ investment_analysis' = investment_analysis
               ELSE /\ investment_analysis' = IF market = "data" THEN "stock" ELSE "error"
                    /\ apc' = "analysed"
                    /\ out' = out
    /\ UNCHANGED <<question, mgrRev, finParser, documents, clean_question, flags,
                   deepthink_mode, verdict, similar_docs, full_response, memory,
                   memAt, encoded>>
    /\ UNCHANGED <<unitVars, gateVars, cacheVars, llmVars>>

\* ask_streaming, lines 154-198: the analysis fragments and the header of the
\* answer, then generate_answer_streaming is called
PreambleStep ==
    /\ apc = "analysed"
    /\ out' = out
              \o (IF deepthink_mode THEN <<FragDeepAnalysis(clean_question)>> ELSE <<>>)
              \o (IF investment_analysis = "stock"
                  THEN <<Frag.analysis_header>> \o [n \in 1..7 |-> FragStockLine(n)] ELSE <<>>)
              \o << IF deepthink_mode THEN Frag.main_answer_header
                    ELSE IF HasFlag(flags, "-simple") THEN Frag.simple_header
                    ELSE Frag.answer_header >>
    /\ full_response' = <<>>
    /\ apc' = "generating"
    /\ lpc' = "guard"
    /\ caller' = "ask_streaming"
    /\ lQuestion' = clean_question
    /\ lDocs' = similar_docs
    /\ lDeep' = deepthink_mode
    /\ lFlags' = flags
    /\ UNCHANGED <<prompt, attempt, posts, connOpen, lines, refused, yielded>>
    /\ UNCHANGED <<question, mgrRev, finParser, documents, clean_question, flags,
                   deepthink_mode, verdict, similar_docs, investment_analysis,
                   memory, memAt, encoded, marketCalls>>
    /\ UNCHANGED <<unitVars, gateVars, cacheVars>>

\* the mutant writes the timing fragment before the fallback recommendation
FinishOutputTimingFirst ==
    out \o <<Frag.timing>>
        \o (IF ~is_response_relevant(full_response, clean_question)
               /\ investment_analysis # "none"
            THEN <<Frag.recommend_header>>
                 \o (IF investment_analysis = "stock" THEN <<Frag.recommend_stock>> ELSE <<>>)
            ELSE <<>>)

\* lines 205-220: what the caller has received when ask_streaming ends
FinishOutput ==
    out \o (IF ~is_response_relevant(full_response, clean_question)
               /\ investment_analysis # "none"
            THEN <<Frag.recommend_header>>
                 \o (IF investment_analysis = "stock" THEN <<Frag.recommend_stock>> ELSE <<>>)
            ELSE <<>>)
        \o <<Frag.timing>>

\* ask_streaming, lines 205-220, once the generator is exhausted: the fallback
\* recommendation, the two memory appends, the timing fragment
FinishStep ==
    /\ apc = "generating"
    /\ lpc = "done"
    /\ out' = FinishOutput
    /\ memory' = add_message(add_message(memory, "user", clean_question),
                             "assistant", full_response)
    /\ memAt' = Len(FinishOutput) - 1
    /\ apc' = "completed"
    /\ UNCHANGED <<question, mgrRev, finParser, documents, clean_question, flags,
                   deepthink_mode, verdict, similar_docs, investment_analysis,
                   full_response, encoded, marketCalls>>
    /\ UNCHANGED <<unitVars, gateVars, cacheVars, llmVars>>

(***************************************************************************)
(* AI_Assistant_Demo3.py: SmartDeepThinkRAG.ask, the non-streaming         *)
(* orchestrator.  It uses apc, question, deepthink_mode, verdict and out   *)
(* of the orchestrator state; out holds the one text ask returns.          *)
(***************************************************************************)
\* security_rules['dangerous_patterns'] of the demo: pattern -> action
DemoDangerousPatterns ==
    << [pattern |-> PatHack, action |-> "[help with hacking]"],
       [pattern |-> PatSql, action |-> "[write sql]"] >>

DemoReason(action) == <<"[the user asks me to]", action, "[but my instructions forbid it]">>

\* SmartDeepThinkRAG.security_check of the demo: the first pattern, in the
\* order of the dictionary, that occurs in the lowercased question
demo_security_check(text) ==
    LET hits == { k \in 1..Len(DemoDangerousPatterns) :
                    Contains(Lower(text), DemoDangerousPatterns[k].pattern) }
    IN IF hits = {}
       THEN [allowed |-> TRUE, reason |-> <<"[the request complies with the security policy]">>, raised |-> FALSE]
       ELSE [allowed |-> FALSE,
             reason |-> DemoReason(DemoDangerousPatterns[Min(hits)].action),
             raised |-> FALSE]

DemoPieces == {PieceWord, PieceSpace, PatHack, PieceSqlUpper, DeepSuffix}

\* the question as it stands after lines 414-424 (suffix recognised, keyboard
\* layout fixed, stripped)
DemoTexts == { Strip(Flatten(ps)) : ps \in SeqsUpTo(DemoPieces, MaxPieces) }

DemoInit ==
    /\ apc = "idle"
    /\ question \in DemoTexts
    /\ mgrRev = "legacy"
    /\ finParser = FALSE
    /\ documents = <<"d1", "d2", "d3", "d4">>
    /\ clean_question = <<>>
    /\ flags = <<>>
    /\ deepthink_mode = FALSE
    /\ verdict = NoAskVerdict
    /\ similar_docs = <<>>
    /\ investment_analysis = "none"
    /\ full_response = <<>>
    /\ out = <<>>
    /\ memory = <<>>
    /\ memAt = 0
    /\ encoded = <<>>
    /\ marketCalls = 0

\* ask, lines 413-430: the two tasks are created
DemoAskCall ==
    /\ apc = "idle"
    /\ deepthink_mode' = EndsWith(Lower(RStrip(question)), DeepSuffix)
    /\ apc' = "tasks_created"
    /\ UNCHANGED <<question, mgrRev, finParser, documents, clean_question, flags,
                   verdict, similar_docs, investment_analysis, full_response, out,
                   memory, memAt, encoded, marketCalls>>
    /\ UNCHANGED <<unitVars, gateVars, cacheVars, llmVars>>

\* ask, lines 432-436: the embedding task is awaited; its failure is raised
\* to the caller as LLMError
DemoAwaitEmbedding(ok) ==
    /\ apc = "tasks_created"
    /\ encoded' = Append(encoded, question)
    /\ apc' = IF ok THEN "embedded" ELSE "raised"
    /\ UNCHANGED <<question, mgrRev, finParser, documents, clean_question, flags,
                   deepthink_mode, verdict, similar_docs, investment_analysis,
                   full_response, out, memory, memAt, marketCalls>>
    /\ UNCHANGED <<unitVars, gateVars, cacheVars, llmVars>>

\* ask, lines 438-443: the security task is awaited; a refusal is returned
DemoAwaitSecurity ==
    /\ apc = "embedded"
    /\ LET v == demo_security_check(question)
       IN /\ verdict' = v
          /\ IF v.allowed
             THEN apc' = "checked" /\ out' = out
             ELSE apc' = "returned" /\ out' = Append(out, v.reason)
    /\ UNCHANGED <<question, mgrRev, finParser, documents, clean_question, flags,
                   deepthink_mode, similar_docs, investment_analysis, full_response,
                   memory, memAt, encoded, marketCalls>>
    /\ UNCHANGED <<unitVars, gateVars, cacheVars, llmVars>>

\* ask, lines 445-464: retrieval, generate_llm_answer (which returns a text
\* whatever the model does), the answer with the response time
DemoAnswer(answer) ==
    /\ apc = "checked"
    /\ clean_question' = Strip(RemoveAll(question, DeepSuffix))
    /\ similar_docs' = Take(documents, top_k)
    /\ full_response' = answer
    /\ out' = Append(out, answer \o Frag.timing)
    /\ apc' = "returned"
    /\ UNCHANGED <<question, mgrRev, finParser, documents, flags, deepthink_mode,
                   verdict, investment_analysis, memory, memAt, encoded, marketCalls>>
    /\ UNCHANGED <<unitVars, gateVars, cacheVars, llmVars>>

(***************************************************************************)
(* Retrieval called on its own, for a corpus, a question vector and top_k. *)
(***************************************************************************)
\* cosine similarity of u to q is below that of v to q (non-zero vectors with
\* non-negative components): the squares are compared to stay in the integers
CosineLess(u, v, q) == Dot(u, q) * Dot(u, q) * Dot(v, v) < Dot(v, q) * Dot(v, q) * Dot(u, u)

\* QdrantManager.search_similar with Distance.COSINE and score_threshold 0.3:
\* the stored points whose score reaches the threshold (for 0/1 vectors: a
\* positive dot product), best first, equal scores in the order of the point
\* ids, at most limit of them
search_similar(pts, embs, q, limit) ==
    LET pos(i) == CHOOSE n \in 1..Len(pts) : pts[n] = i
        cands == {pts[n] : n \in 1..Len(pts)} \cap {i \in 1..Len(embs) : Dot(embs[i], q) >= 1}
        better(j, i) == \/ CosineLess(embs[i], embs[j], q)
                        \/ (~CosineLess(embs[j], embs[i], q) /\ pos(j) < pos(i))
        ranked == [r \in 1..Cardinality(cands) |->
                     CHOOSE i \in cands : Cardinality({j \in cands : better(j, i)}) = r - 1]
    IN Take(ranked, limit)

RetrInit ==
    /\ rpc = "called"
    /\ doc_embeddings \in SeqsUpTo(Vectors, MaxDocs)
    /\ q_embedding \in Vectors
    /\ rk \in 0..MaxK
    /\ top_indices = <<>>
    /\ points = <<>>
    /\ results = <<>>
    /\ history = <<>>
    /\ context = <<>>
    /\ AlertsInit

\* retrieval is not exercised on its own; DialogueMemory and
\* PriceAlertsManager are as constructed
RetrIdle ==
    /\ rpc = "idle"
    /\ doc_embeddings = <<>>
    /\ q_embedding = <<0, 0>>
    /\ rk = 0
    /\ top_indices = <<>>
    /\ points = <<>>
    /\ results = <<>>
    /\ history = <<>>
    /\ context = <<>>
    /\ AlertsInit

\* AI_Assistant_Demo3.py, find_similar_docs, lines 261-264
FindSimilarDocs(order) ==
    /\ rpc = "called"
    /\ doc_embeddings # <<>>
    /\ order \in ArgSorts(Similarities(doc_embeddings, q_embedding))
    /\ top_indices' = Reverse(LastN(order, rk))
    /\ rpc' = "returned"
    /\ UNCHANGED <<doc_embeddings, q_embedding, rk, points, results>>
    /\ UNCHANGED <<gateVars, cacheVars, llmVars, askVars, history, context, alertVars>>

\* find_similar_docs on an empty corpus: np.dot raises
FindSimilarDocsRaises ==
    /\ rpc = "called"
    /\ doc_embeddings = <<>>
    /\ rpc' = "raised"
    /\ UNCHANGED <<doc_embeddings, q_embedding, rk, top_indices, points, results>>
    /\ UNCHANGED <<gateVars, cacheVars, llmVars, askVars, history, context, alertVars>>

\* src/src/embeddings_manager.py, find_similar, lines 88-94: the placeholder
\* text for an empty corpus, else documents[:top_k]
FindSimilar ==
    /\ rpc = "called"
    /\ IF doc_embeddings = <<>>
       THEN rpc' = "placeholder" /\ top_indices' = top_indices
       ELSE /\ rpc' = "returned"
            /\ top_indices' = Take([i \in 1..Len(doc_embeddings) |-> i], rk)
    /\ UNCHANGED <<doc_embeddings, q_embedding, rk, points, results>>
    /\ UNCHANGED <<gateVars, cacheVars, llmVars, askVars, history, context, alertVars>>

\* src/ai_assistant/src/embeddings_manager.py, load_documents_to_qdrant (lines
\* 44-57), the background task precompute_embeddings creates for a non-empty
\* corpus: add_documents has stored one point per document under a random id,
\* and documents_loaded is set
LoadDocumentsToQdrant(order) ==
    /\ rpc = "called"
    /\ points = <<>>
    /\ doc_embeddings # <<>>
    /\ order \in [1..Len(doc_embeddings) -> 1..Len(doc_embeddings)]
    /\ \A i, j \in 1..Len(order) : i # j => order[i] # order[j]
    /\ points' = order
    /\ UNCHANGED <<rpc, doc_embeddings, q_embedding, rk, top_indices, results>>
    /\ UNCHANGED <<gateVars, cacheVars, llmVars, askVars, history, context, alertVars>>

\* src/ai_assistant/src/embeddings_manager.py, find_similar (lines 71-92): the
\* Qdrant hits once the documents are loaded, otherwise (or when there is no
\* hit) documents[:top_k], or the placeholder text, written 0; this revision
\* is exercised apart from the two retrievals above
FindSimilarQdrant ==
    /\ rpc = "called"
    /\ Len(results) < MaxQueries
    /\ LET hits == search_similar(points, doc_embeddings, q_embedding, rk)
           fallback == IF doc_embeddings # <<>>
                       THEN Take([i \in 1..Len(doc_embeddings) |-> i], rk)
                       ELSE <<0>>
       IN results' = Append(results, IF points # <<>> /\ hits # <<>> THEN hits ELSE fallback)
    /\ UNCHANGED <<rpc, doc_embeddings, q_embedding, rk, top_indices, points>>
    /\ UNCHANGED <<gateVars, cacheVars, llmVars, askVars, history, context, alertVars>>

(***************************************************************************)
(* DialogueMemory called on its own: add_message and get_context.          *)
(***************************************************************************)
MaxAppends == 11

\* how many of the stored messages are inside the window of a get_context call
Windows == {0, 1, max_messages}

\* add_message(role, content), lines 11-21; the content is the serial number
\* of the call
MemAddMessage(role) ==
    /\ Len(history) < MaxAppends
    /\ memory' = add_message(memory, role, Len(history) + 1)
    /\ history' = Append(history, [role |-> role, content |-> Len(history) + 1])
    /\ UNCHANGED <<apc, question, mgrRev, finParser, documents, clean_question, flags,
                   deepthink_mode, verdict, similar_docs, investment_analysis,
                   full_response, out, memAt, encoded, marketCalls>>
    /\ UNCHANGED <<gateVars, cacheVars, llmVars, retrVars, context, alertVars>>

\* get_context(window_minutes), lines 23-26: the messages whose timestamp is
\* not older than the cutoff; timestamps do not decrease in append order, so
\* these are the last n messages, for the n the clock decides
MemGetContext(n) ==
    /\ n <= Len(memory)
    /\ LastN(memory, n) # context
    /\ context' = IF n = 0 THEN <<>> ELSE LastN(memory, n)
    /\ UNCHANGED <<gateVars, cacheVars, llmVars, askVars, retrVars, history, alertVars>>

(***************************************************************************)
(* PriceAlertsManager called on its own.                                   *)
(***************************************************************************)
\* add_alert, lines 16-32: the entry is stored under the id, replacing what
\* was there
AddAlert(id, target_price, condition) ==
    /\ alerts' = [alerts EXCEPT ![id] = NewAlert(target_price, condition)]
    /\ fired' = [fired EXCEPT ![id] = 0]
    /\ UNCHANGED alertRet
    /\ UNCHANGED <<gateVars, cacheVars, llmVars, askVars, retrVars, history, context>>

\* the mutant does not look at the triggered mark
CheckAlertIgnoresTriggered(id, current_price) ==
    LET alert == alerts[id]
        met == alert # NoAlert /\ alert.active /\ condition_met(alert, current_price)
    IN /\ alertRet' = [id |-> id, price |-> current_price, result |-> met]
       /\ alerts' = IF met
                    THEN [alerts EXCEPT ![id].triggered = TRUE,
                                        ![id].triggered_price = current_price]
                    ELSE alerts
       /\ fired' = IF met THEN [fired EXCEPT ![id] = @ + 1] ELSE fired
       /\ UNCHANGED <<gateVars, cacheVars, llmVars, askVars, retrVars, history, context>>

\* check_alert, lines 34-57
CheckAlert(id, current_price) ==
    LET alert == alerts[id]
        met == /\ alert # NoAlert
               /\ alert.active /\ ~alert.triggered
               /\ condition_met(alert, current_price)
    IN /\ alertRet' = [id |-> id, price |-> current_price, result |-> met]
       /\ alerts' = IF met
                    THEN [alerts EXCEPT ![id].triggered = TRUE,
                                        ![id].triggered_price = current_price]
                    ELSE alerts
       /\ fired' = IF met THEN [fired EXCEPT ![id] = @ + 1] ELSE fired
       /\ UNCHANGED <<gateVars, cacheVars, llmVars, askVars, retrVars, history, context>>

\* remove_alert, lines 66-71
RemoveAlert(id) ==
    /\ alerts[id] # NoAlert
    /\ alerts' = [alerts EXCEPT ![id] = NoAlert]
    /\ UNCHANGED <<alertRet, fired>>
    /\ UNCHANGED <<gateVars, cacheVars, llmVars, askVars, retrVars, history, context>>

(***************************************************************************)
(* Specifications.                                                         *)
(***************************************************************************)
GateNext == CallExtractFlags \/ CallCheck

InitGate == GateInit /\ CacheIdle /\ LLMIdle /\ AskIdle /\ RetrIdle

SpecGate == InitGate /\ [][GateNext]_vars

CacheNext ==
    \/ \E th \in CacheThreads, text \in CacheTexts : GetLookup(th, text)
    \/ \E th \in CacheThreads : EncodeStore(th)
    \/ \E th \in CacheThreads : EncodeFails(th)
    \/ \E th \in CacheThreads, ok \in BOOLEAN : SaveOpen(th, ok)
    \/ \E th \in CacheThreads, ok \in BOOLEAN : SaveDump(th, ok)
    \/ \E th \in CacheThreads : GetReturn(th)
    \/ \E text \in CacheTexts, ok \in BOOLEAN : ManagerGetEmbedding(text, ok)
    \/ Crash
    \/ Restart

InitCache == rules = RulesMissing /\ GateIdle /\ CacheInit /\ LLMIdle /\ AskIdle /\ RetrIdle

SpecCache == InitCache /\ [][CacheNext]_vars

LLMNext ==
    \/ LLMGuard
    \/ \E outcome \in {"ok", "status", "timeout", "connector", "error"} : LLMPost(outcome)
    \/ \E chunk \in BackendChunks : LLMReadChunk(chunk)
    \/ LLMReadSkip
    \/ LLMStreamEnd
    \/ \E event \in {"read_timeout", "read_error", "undecodable"} : LLMStreamFails(event)
    \/ LLMCancel
    \/ LLMAbandon
    \/ LLMFinalize

InitLLM == rules = RulesMissing /\ GateIdle /\ CacheIdle /\ LLMInit /\ AskIdle /\ RetrIdle

SpecLLM == InitLLM /\ [][LLMNext]_vars

Next ==
    \/ AskCall
    \/ FinancialStep
    \/ ExtractFlagsStep
    \/ SafetyCheckStep
    \/ \E ok \in BOOLEAN : EmbedStep(ok)
    \/ RetrieveStep
    \/ \E market \in {"data", "nodata", "exception"} : InvestStep(market)
    \/ PreambleStep
    \/ LLMGuard
    \/ \E outcome \in {"ok", "status", "timeout", "connector", "error"} : LLMPost(outcome)
    \/ \E chunk \in {ChunkPlain, ChunkMortgage} : LLMReadChunk(chunk)
    \/ LLMReadSkip
    \/ LLMStreamEnd
    \/ \E event \in {"read_timeout", "read_error", "undecodable"} : LLMStreamFails(event)
    \/ FinishStep

Init == GateIdle /\ CacheIdle /\ LLMIdle /\ AskInit /\ RetrIdle

Spec == Init /\ [][Next]_vars

DemoNext ==
    \/ DemoAskCall
    \/ \E ok \in BOOLEAN : DemoAwaitEmbedding(ok)
    \/ DemoAwaitSecurity
    \/ \E answer \in BackendChunks : DemoAnswer(answer)

InitDemo == rules = RulesMissing /\ GateIdle /\ CacheIdle /\ LLMIdle /\ DemoInit /\ RetrIdle

SpecDemo == InitDemo /\ [][DemoNext]_vars

RetrieveNext ==
    \/ \E order \in SeqsUpTo(1..MaxDocs, MaxDocs) : FindSimilarDocs(order)
    \/ FindSimilarDocsRaises
    \/ FindSimilar
    \/ \E order \in SeqsUpTo(1..MaxDocs, MaxDocs) : LoadDocumentsToQdrant(order)
    \/ FindSimilarQdrant

InitRetrieve == rules = RulesMissing /\ GateIdle /\ CacheIdle /\ LLMIdle /\ AskIdle /\ RetrInit

SpecRetrieve == InitRetrieve /\ [][RetrieveNext]_vars

MemoryNext ==
    \/ \E role \in {"user", "assistant"} : MemAddMessage(role)
    \/ \E n \in Windows : MemGetContext(n)

InitMemory == rules = RulesMissing /\ GateIdle /\ CacheIdle /\ LLMIdle /\ AskIdle /\ RetrIdle

SpecMemory == InitMemory /\ [][MemoryNext]_vars


AlertsNext ==
    \/ \E id \in AlertIds, target_price \in Prices, condition \in Conditions :
          AddAlert(id, target_price, condition)
    \/ \E id \in AlertIds, current_price \in Prices : CheckAlert(id, current_price)
    \/ \E id \in AlertIds : RemoveAlert(id)

InitAlerts == rules = RulesMissing /\ GateIdle /\ CacheIdle /\ LLMIdle /\ AskIdle /\ RetrIdle

SpecAlerts == InitAlerts /\ [][AlertsNext]_vars
(***************************************************************************)
(* Properties of the SecurityChecker (checked under SpecGate).             *)
(***************************************************************************)
\* what check worked on
gClean == extract_flags(gRaw).clean
gFlags == extract_flags(gRaw).flags
gNoTrigger == HasFlag(gFlags, "-notrigger")
gNoCode == HasFlag(gFlags, "-nocode")

\* the configured dangerous substrings that occur in the cleaned, lowercased text
gMatched ==
    { k \in 1..Len(rules.dangerous_patterns) :
        Contains(Lower(gClean), rules.dangerous_patterns[k]) }

\* a matched substring that -nocode exempts: it contains "kod", "sql" or "komandu"
gExempt(k) ==
    /\ gNoCode
    /\ \E w \in NoCodeWords : Contains(rules.dangerous_patterns[k], w)

\* C3 as stated: a text containing a configured dangerous substring is refused
\* with the reason configured for a substring it contains, unless -notrigger is
\* present, in which case it is allowed.
C3_Original ==
    (gCheckDone /\ gMatched # {}) =>
        IF gNoTrigger
        THEN gVerdict.allowed
        ELSE /\ ~gVerdict.allowed
             /\ ~gVerdict.raised
             /\ \E k \in gMatched : gVerdict.reason = RejectionMessage(rules, k)

\* C3 amended: a text containing a configured dangerous substring is refused with
\* the reason of the first such substring, in configuration order, that -nocode
\* does not exempt (the substring's own message, else the default message, else
\* the built-in one); if -nocode exempts every matching substring the text is
\* allowed with an empty reason; with -notrigger it is allowed.
C3_DangerousSubstringRefused ==
    (gCheckDone /\ gMatched # {}) =>
        /\ ~gVerdict.raised
        /\ IF gNoTrigger
           THEN gVerdict.allowed /\ gVerdict.reason = CheckerMsg.no_trigger
           ELSE IF \A k \in gMatched : gExempt(k)
           THEN gVerdict.allowed /\ gVerdict.reason = ""
           ELSE /\ ~gVerdict.allowed
                /\ \E k \in gMatched :
                      /\ ~gExempt(k)
                      /\ \A j \in gMatched : j < k => gExempt(j)
                      /\ gVerdict.reason = RejectionMessage(rules, k)

\* two configured substrings with different messages match and the text is refused
C3_Witness ==
    /\ gCheckDone
    /\ Cardinality(gMatched) = 2
    /\ ~gNoTrigger
    /\ ~gNoCode
    /\ ~gVerdict.allowed
    /\ RejectionMessage(rules, 1) # RejectionMessage(rules, 2)

\* C4 as stated: a cleaned text matching the code/SQL pattern, without -nocode
\* and without -notrigger, is refused with the fixed code refusal message.
C4_Original ==
    (gCheckDone /\ CodeRegexSearch(gClean) /\ ~gNoCode /\ ~gNoTrigger) =>
        /\ ~gVerdict.allowed
        /\ ~gVerdict.raised
        /\ gVerdict.reason = CodeMessage(rules)

\* C4 amended: a cleaned text matching the code/SQL pattern, without -nocode and
\* without -notrigger, is never allowed, whatever the substring map holds: check
\* refuses it, with the code refusal message when no dangerous substring refused
\* it first and with that substring's message otherwise (check raises instead of
\* returning when the rules are not a JSON object).
C4_CodeRequestNeverAllowed ==
    (gCheckDone /\ CodeRegexSearch(gClean) /\ ~gNoCode /\ ~gNoTrigger) =>
        \/ gVerdict.raised /\ rules.kind # "dict"
        \/ /\ ~gVerdict.raised
           /\ ~gVerdict.allowed
           /\ IF gMatched = {}
              THEN gVerdict.reason = CodeMessage(rules)
              ELSE \E k \in gMatched : gVerdict.reason = RejectionMessage(rules, k)

\* a code/SQL request that matches no dangerous substring is refused by the pattern
C4_Witness ==
    /\ gCheckDone
    /\ CodeRegexSearch(gClean)
    /\ ~gNoCode
    /\ ~gNoTrigger
    /\ gMatched = {}
    /\ rules.kind = "dict"
    /\ ~gVerdict.allowed
    /\ gVerdict.reason = CodeMessage(rules)

\* C5: the cleaned text returned by flag extraction contains no recognized flag
\* token, for every input containing one.
C5_CleanTextHasNoFlagToken ==
    (gExtDone /\ \E i \in 1..Len(FlagOrder) : Contains(gRaw, FlagChars(FlagOrder[i]))) =>
        \A i \in 1..Len(FlagOrder) : ~Contains(gExt.clean, FlagChars(FlagOrder[i]))


\* C20: flag extraction is idempotent: applied to the cleaned text it has
\* returned, it returns that text unchanged and no flag.
C20_ExtractFlagsIdempotent ==
    gExtDone => extract_flags(gExt.clean) = [clean |-> gExt.clean, flags |-> <<>>]


\* C22: check never raises, whatever the text and whatever _load_rules has
\* returned; when the rule file is missing or unreadable no dangerous pattern
\* is known, so a text without a code/SQL keyword (and without -notrigger,
\* whose verdict carries its own reason) is allowed with an empty reason.
C22_CheckNeverRaises ==
    gCheckDone =>
        /\ ~gVerdict.raised
        /\ (rules = RulesMissing /\ ~gNoTrigger /\ ~CodeRegexSearch(gClean)) =>
              (gVerdict.allowed /\ gVerdict.reason = "")

(***************************************************************************)
(* Properties of the EmbeddingCache (checked under SpecCache).             *)
(***************************************************************************)
\* C9: once a get call has returned the vector of a text, no later step calls
\* the embedder for that text again (also not for a question text that is
\* asked again): the embedder is invoked at most once per distinct text.
C9_NoEncodeForEmbeddedText ==
    [][\A t \in CacheTexts :
          (\E r \in returned : r[1] = t) => encodeCalls'[t] = encodeCalls[t]]_vars

\* C10: the cache is write-through: when a miss returns, the file already holds
\* the entry, and whenever the process is running (also after a crash and a
\* restart) every result returned so far is in the cache with the same vector.
C10_WriteThrough ==
    /\ \A th \in CacheThreads :
          ct[th].pc = "ret" =>
              /\ disk.state = "ok"
              /\ Key(ct[th].text) \in DOMAIN disk.data
              /\ disk.data[Key(ct[th].text)] = ct[th].emb
    /\ up => \A r \in returned :
                r[3] = "EmbeddingCache" =>
                    /\ Key(r[1]) \in DOMAIN cache
                    /\ cache[Key(r[1])] = r[2]


\* C11: while the process runs, under any interleaving of get calls on the
\* executor threads, the cache only grows: no step removes a key or changes
\* the vector stored for it, and no step stores a vector under a key the cache
\* already holds.
C11_CacheOnlyGrows ==
    [][(up /\ up') =>
          /\ \A k \in DOMAIN cache : k \in DOMAIN cache' /\ cache'[k] = cache[k]
          /\ \A th \in CacheThreads :
                EncodeStore(th) => Key(ct[th].text) \notin DOMAIN cache]_vars
(***************************************************************************)
(* Properties of ask_streaming (checked under Spec).                       *)
(***************************************************************************)
\* C1 as stated: whenever the safety check has rejected the question, the
\* caller has received exactly one fragment, the refusal text, and the
\* generation backend has not been called.
C1_Original ==
    apc = "rejected" =>
        /\ out = << <<verdict.reason>> >>
        /\ posts = 0

\* C1 amended: whenever the safety check has rejected the question, the
\* generation backend has not been called, no generation has been started and
\* the run has ended; without the deepthink mode the caller has received
\* exactly one fragment, the refusal text; in deepthink mode it has received
\* five: the banner, a separator, the refusal text inside the security
\* analysis line, the rejection notice and a separator.
C1_RejectedStream ==
    /\ [](apc = "rejected" =>
            /\ ~verdict.allowed
            /\ posts = 0
            /\ lpc = "idle"
            /\ IF deepthink_mode
               THEN out = <<Frag.deep_banner, Frag.separator,
                            <<"[security analysis:]", verdict.reason>>,
                            Frag.rejected_notice, Frag.separator>>
               ELSE out = << <<verdict.reason>> >>)
    /\ [][apc # "rejected"]_vars

C1_Witness ==
    /\ apc = "rejected"
    /\ deepthink_mode
    /\ Len(out) = 5
    /\ verdict.reason = "cfg: no hacking help"

\* C2: when -notrigger is among the flags of the question, the safety check
\* allows it with the distinct informational reason and the caller never
\* receives a refusal fragment, from the code/SQL detector of the generation
\* client no more than from the safety check.
C2_NoTriggerNeverRefused ==
    (HasFlag(flags, "-notrigger") /\ apc \in {"checked", "embedded", "retrieved",
                                               "analysed", "generating", "completed"}) =>
        /\ verdict.allowed
        /\ verdict.reason = CheckerMsg.no_trigger
        /\ \A i \in DOMAIN out : out[i] # LLMMsg.refusal

\* C8: in a run that has completed the timing fragment is the last fragment the
\* caller has received and occurs once; DialogueMemory is appended to only
\* when the generator is exhausted, after every generation fragment has been
\* received, so that the timing fragment alone follows the append.
C8_TimingLastMemoryAfterStream ==
    /\ apc = "completed" =>
          /\ out # <<>>
          /\ out[Len(out)] = Frag.timing
          /\ Cardinality({i \in DOMAIN out : out[i] = Frag.timing}) = 1
    /\ apc = "generating" => memory = <<>>
    /\ memory # <<>> =>
          /\ apc = "completed"
          /\ lpc = "done"
          /\ memAt = Len(out) - 1
          /\ \A i \in DOMAIN yielded :
                is_relevant_chunk(yielded[i], clean_question) =>
                    \E j \in 1..memAt : out[j] = yielded[i]

C8_Witness ==
    /\ apc = "completed"
    /\ Len(memory) = 2
    /\ Len(yielded) >= 2
    /\ investment_analysis = "stock"
    /\ out[Len(out) - 1] = Frag.recommend_stock


\* the stages of an ask run in their order; the three ways to end come last
apcRank ==
    [ idle |-> 0, received |-> 1, base |-> 2, flags_extracted |-> 3, checked |-> 4,
      embedded |-> 5, retrieved |-> 6, analysed |-> 7, generating |-> 8,
      completed |-> 9, rejected |-> 9, failed |-> 9 ]

forwarded ==
    LET relevant(chunk) == is_relevant_chunk(chunk, clean_question)
    IN SelectSeq(yielded, relevant)

\* C16: when an ask run has completed, DialogueMemory holds a user turn with
\* the question and, after it, an assistant turn whose text is the
\* concatenation, in order, of the fragments of the answer the caller received.
C16_MemoryHoldsDeliveredAnswer ==
    apc = "completed" =>
        /\ Len(memory) = 2
        /\ memory[1] = [role |-> "user", content |-> clean_question]
        /\ memory[2] = [role |-> "assistant", content |-> Flatten(forwarded)]

\* C19: when an ask run has failed, the last fragment the caller has received
\* is one generic text that does not depend on the error: it is the fragment
\* the run would have produced for any other internal error.
C19_FailureFragmentGeneric ==
    apc = "failed" =>
        /\ out # <<>>
        /\ \A f \in DOMAIN Err : out[Len(out)] = FragError(Err[f])

\* what SecurityChecker._extract_flags makes of the raw question
qExt == extract_flags(question)

statusOnly ==
    /\ apc = "completed"
    /\ lpc = "done"
    /\ posts > 0
    /\ refused = posts
    /\ yielded = <<LLMMsg.status>>

\* the fragments ask_streaming itself writes around the generated text
orchestratorFragments ==
    {Frag.deep_banner, Frag.separator, FragDeepAnalysis(clean_question),
     Frag.analysis_header, Frag.main_answer_header, Frag.simple_header,
     Frag.answer_header, Frag.recommend_header, Frag.recommend_stock}
    \cup {FragStockLine(n) : n \in 1..7}

\* C25 as stated: when the backend answers every attempt with a non-success
\* status the caller receives exactly two fragments: the failure text and the
\* timing fragment.
C25_Original ==
    statusOnly => out = <<LLMMsg.status, Frag.timing>>

\* C25 amended: when the backend answers every attempt with a non-success
\* status, 1 + max_retries POSTs were sent and the caller has received the
\* failure text exactly once, right after the header of the answer, and the
\* timing fragment exactly once, as the last fragment; every other fragment is
\* one that ask_streaming writes itself (banner, analysis, header, fallback
\* recommendation), none is generated text.
C25_StatusFailureStream ==
    statusOnly =>
        /\ posts = max_retries + 1
        /\ Cardinality({i \in DOMAIN out : out[i] = LLMMsg.status}) = 1
        /\ Cardinality({i \in DOMAIN out : out[i] = Frag.timing}) = 1
        /\ out[Len(out)] = Frag.timing
        /\ \A i \in DOMAIN out :
              \/ out[i] \in {LLMMsg.status, Frag.timing} \cup orchestratorFragments
        /\ \A i \in DOMAIN out :
              out[i] = LLMMsg.status =>
                 /\ i > 1
                 /\ out[i - 1] \in {Frag.main_answer_header, Frag.simple_header,
                                    Frag.answer_header}

C25_Witness ==
    /\ statusOnly
    /\ out = <<Frag.answer_header, LLMMsg.status, Frag.timing>>

\* C26: with a corpus of one document, a run on a question the safety check
\* allows does not fail in retrieval: retrieval returns that document, the
\* prompt of the generation holds its text, and a run completed through
\* generation ends with the timing fragment, which occurs once.
C26_SingleDocumentReachesGeneration ==
    Len(documents) = 1 =>
        /\ ~(apc = "failed" /\ encoded # <<>> /\ out[Len(out)] = FragError(Err.find_similar))
        /\ apc \in {"retrieved", "analysed", "generating"} => similar_docs = documents
        /\ prompt # NoPrompt => prompt.context = documents
        /\ (apc = "completed" /\ memory # <<>>) =>
              /\ out[Len(out)] = Frag.timing
              /\ Cardinality({i \in DOMAIN out : out[i] = Frag.timing}) = 1

\* C28: once the safety check of a run has been made, the text it evaluated
\* (the clean text SecurityChecker.check makes of the question it is given)
\* is the cleaned question that embedding, retrieval and prompt building use,
\* and its flags are the flags of the run: one stripping, one text.
C28_OneCleanedTextEverywhere ==
    apc \in {"checked", "embedded", "retrieved", "analysed", "generating",
             "rejected"} =>
        /\ qExt.clean = clean_question
        /\ qExt.flags = flags
        /\ \A i \in DOMAIN encoded : encoded[i] = clean_question

\* C29: every non-empty fragment the backend emits during an ask run reaches
\* the caller, post-processed, as the next fragment of the stream, and what
\* the caller has received from the generator is at all times exactly what
\* the generator has yielded, in that order: nothing dropped, nothing twice.
C29_EveryFragmentDeliveredOnce ==
    /\ [][\A chunk \in BackendChunks :
            (LLMReadChunk(chunk) /\ caller = "ask_streaming") =>
                (out' = Append(out, PostProcess(chunk)))]_vars
    /\ [](apc = "generating" =>
            \E n \in 0..Len(out) : SubSeq(out, n + 1, Len(out)) = yielded)

\* deep analysis is requested by the question and not suppressed by -nodeep
deepRequested == EndsWith(question, DeepSuffix) /\ ~HasFlag(flags, "-nodeep")

\* C33 as stated: the prompt of a run uses the reasoning template exactly when
\* deep analysis is requested and -nodeep is absent, the terse template when
\* -simple is active and the reasoning branch is not taken, and the default
\* template otherwise.
C33_Original ==
    prompt # NoPrompt =>
        prompt.template = IF deepRequested THEN "deepthink"
                          ELSE IF HasFlag(flags, "-simple") THEN "simple"
                          ELSE "default"

\* C33 amended: a cleaned question that holds one of the investment words gets
\* the investment template whatever the flags; any other question gets the
\* reasoning template exactly when deep analysis is requested and -nodeep is
\* absent, the terse template when -simple is active and the reasoning branch
\* is not taken, and the default template otherwise.  The prompt is built by
\* the guard step of the generation client and never changes afterwards.
C33_TemplateSelection ==
    /\ [][(LLMGuard /\ prompt' # NoPrompt) =>
            (prompt'.template =
                IF \E w \in InvestWords : Contains(Lower(clean_question), w) THEN "investment"
                ELSE IF deepRequested THEN "deepthink"
                ELSE IF HasFlag(flags, "-simple") THEN "simple"
                ELSE "default")]_vars
    /\ [][(prompt # NoPrompt) =>
            (prompt' = prompt /\ clean_question' = clean_question /\ flags' = flags
             /\ question' = question)]_vars

\* deep analysis and -simple together: the reasoning template wins
C33_Witness ==
    /\ apc = "completed"
    /\ HasFlag(flags, "-simple")
    /\ deepRequested
    /\ prompt.template = "deepthink"

\* the safety check of the run has been made and has allowed the question (a
\* run that ended after it has asked for the embedding of the question)
safetyAllowed ==
    \/ apc \in {"checked", "embedded", "retrieved", "analysed", "generating"}
    \/ (apc \in {"completed", "failed"} /\ encoded # <<>>)

\* C35: whenever the market-data backend or the generation backend has been
\* called, or the caller has received an answer (the financial response or
\* the header of a generated answer), the safety check had been made and had
\* allowed the question.
C35_NothingBeforeSafetyGate ==
    (\/ marketCalls > 0
     \/ posts > 0
     \/ \E i \in DOMAIN out :
           out[i] \in {Frag.financial_response, Frag.analysis_header, Frag.answer_header,
                       Frag.simple_header, Frag.main_answer_header}) =>
        (safetyAllowed /\ verdict.allowed)

\* C36: a run that has ended Rejected or Failed has left DialogueMemory as it
\* was; memory changes only in the step that completes a run, and a run that
\* has completed has appended exactly two turns, the user turn and then the
\* assistant turn.
C36_MemoryOnlyOnCompletion ==
    /\ [](apc # "completed" => memory = <<>>)
    /\ [](apc = "completed" =>
            /\ Len(memory) = 2
            /\ memory[1].role = "user"
            /\ memory[2].role = "assistant")
    /\ [][(memory' # memory) => (apc' = "completed")]_vars

\* the control word of the suffix, without the blank that separates it
deepWord == Tail(DeepSuffix)

\* C37: for a question that ends with the control suffix, whatever its flags,
\* the text given to the embedding, to retrieval and prompt building (the
\* question of the prompt) and to DialogueMemory (the user turn) does not
\* hold the control word.
C37_ControlSuffixNeverDownstream ==
    EndsWith(question, DeepSuffix) =>
        /\ \A i \in DOMAIN encoded : ~Contains(encoded[i], deepWord)
        /\ apc \in {"retrieved", "analysed", "generating", "completed"} =>
              ~Contains(clean_question, deepWord)
        /\ prompt # NoPrompt => ~Contains(prompt.question, deepWord)
        /\ \A i \in DOMAIN memory :
              memory[i].role = "user" => ~Contains(memory[i].content, deepWord)

(***************************************************************************)
(* Properties of the LLMAdapter (checked under SpecLLM).                   *)
(***************************************************************************)
\* C6: the generation client never sends more than 1 + max_retries POSTs in one
\* call; when the call has ended and every POST was answered by a non-success
\* status or timed out, it has made exactly 1 + max_retries attempts and has
\* yielded exactly one fragment, a user-facing failure message.
C6_RetriesThenOneFailureFragment ==
    /\ posts <= max_retries + 1
    /\ attempt <= max_retries
    /\ (lpc = "done" /\ posts > 0 /\ refused = posts) =>
          /\ posts = max_retries + 1
          /\ Len(yielded) = 1
          /\ yielded[1] \in {LLMMsg.status, LLMMsg.timeout}
          /\ ~connOpen

C6_Witness ==
    /\ lpc = "done"
    /\ refused = max_retries + 1
    /\ posts = refused
    /\ yielded = <<LLMMsg.timeout>>

\* C13: once the consumer has stopped pulling fragments or has cancelled the
\* stream, the connection to the backend is not open after that step, no
\* fragment is yielded afterwards and no further POST is sent.
C13_CancelClosesConnection ==
    /\ [](lpc \in {"cancelled", "abandoned", "closed"} => ~connOpen)
    /\ [][(lpc \in {"cancelled", "abandoned", "closed"}) =>
             (yielded' = yielded /\ posts' = posts)]_vars

\* C17: a malformed line of the backend stream (unparseable JSON, a partial
\* line, bytes that are not UTF-8) is skipped: the step that reads it yields
\* no fragment, starts no new attempt and leaves the connection open and being
\* read, so that later lines of the same connection are still delivered.
C17_MalformedLineSkipped ==
    [][(LLMReadSkip \/ LLMStreamFails("undecodable")) =>
          /\ yielded' = yielded
          /\ attempt' = attempt
          /\ posts' = posts
          /\ connOpen'
          /\ lpc' = "read"]_vars

\* C18: a failure to connect to the backend is retried like a non-success
\* status: the call yields its failure fragment for it only after
\* 1 + max_retries attempts, and yields that fragment once.
C18_ConnectionFailureRetried ==
    (lpc = "done" /\ \E i \in DOMAIN yielded : yielded[i] = PostProcess(LLMMsg.connector)) =>
        /\ posts = max_retries + 1
        /\ Cardinality({i \in DOMAIN yielded : yielded[i] = PostProcess(LLMMsg.connector)}) = 1


\* C30: once a fragment of the call has been yielded, a later failure of the
\* connection (a timeout or a read error while the stream is read) starts no
\* new attempt: no POST is sent after the first fragment, so nothing is
\* delivered again from a fresh generation.
C30_NoRestartAfterFirstFragment ==
    /\ [][\A event \in {"read_timeout", "read_error"} :
            (LLMStreamFails(event) /\ yielded # <<>>) =>
                (lpc' # "post" /\ attempt' = attempt)]_vars
    /\ [][(yielded # <<>>) => (posts' = posts)]_vars


\* C31: the step that reads the done frame yields nothing, starts no attempt,
\* closes the connection and ends the stream; once the stream has ended no
\* fragment is yielded, no line is read, no POST is sent and no attempt is
\* started.
C31_DoneFrameEndsStream ==
    /\ [][LLMStreamEnd =>
            /\ lpc' = "done"
            /\ ~connOpen'
            /\ yielded' = yielded
            /\ attempt' = attempt]_vars
    /\ [][(lpc = "done") =>
            /\ lpc' = "done"
            /\ yielded' = yielded
            /\ lines' = lines
            /\ posts' = posts
            /\ attempt' = attempt
            /\ ~connOpen']_vars

\* the done frame was read after one fragment, with lines of the bound unread
C31_Witness ==
    /\ lpc = "done"
    /\ yielded = <<ChunkPlain>>
    /\ lines = 1
    /\ posts = 1
    /\ ~connOpen

\* C32: the fragment the generation client yields for a backend fragment is,
\* with -simple among the flags, the backend fragment with the filler phrases
\* removed and nothing else changed, and without -simple the backend fragment
\* itself.
C32_TerseOnlyRemovesFillers ==
    [][\A chunk \in BackendChunks :
          LLMReadChunk(chunk) =>
              (yielded' = Append(yielded, IF HasFlag(lFlags, "-simple")
                                          THEN RemoveEach(chunk, Fillers)
                                          ELSE chunk))]_vars
(***************************************************************************)
(* Properties of the demo orchestrator (checked under SpecDemo).           *)
(***************************************************************************)
\* C7: no exception escapes the public ask operation: whatever fails, ask
\* never raises to its caller.
C7_NoExceptionEscapes == apc # "raised"


\* C15: the safety check and the embedding lookup are started together and
\* both are awaited; whatever the embedding lookup returns or raises, a run on
\* a question the safety check rejects ends with the refusal text returned to
\* the caller, the verdict of the safety task having been taken.
C15_RejectionWhateverEmbeddingDoes ==
    (apc \in {"returned", "raised"} /\ ~demo_security_check(question).allowed) =>
        /\ apc = "returned"
        /\ verdict = demo_security_check(question)
        /\ out = <<verdict.reason>>

(***************************************************************************)
(* Claims about top-k retrieval.                                           *)
(***************************************************************************)
rSim == Similarities(doc_embeddings, q_embedding)

\* C12: for every corpus, question vector and top_k, the documents a retrieval
\* returns are in order of non-increasing similarity to the question and no
\* document position occurs twice among them.
C12_TopKSortedNoDuplicates ==
    rpc = "returned" =>
        /\ \A i \in 1..(Len(top_indices) - 1) :
              rSim[top_indices[i]] >= rSim[top_indices[i + 1]]
        /\ \A i, j \in 1..Len(top_indices) : i # j => top_indices[i] # top_indices[j]

\* C23: retrieval on an empty corpus returns the empty sequence, not an error
\* and not a placeholder document; retrieval with top_k larger than the corpus
\* returns every document of the corpus, each once.
C23_EmptyCorpusAndLargeK ==
    rpc # "called" =>
        /\ doc_embeddings = <<>> => (rpc = "returned" /\ top_indices = <<>>)
        /\ (doc_embeddings # <<>> /\ rk > Len(doc_embeddings)) =>
              /\ rpc = "returned"
              /\ Len(top_indices) = Len(doc_embeddings)
              /\ {top_indices[i] : i \in DOMAIN top_indices} = DOMAIN doc_embeddings

\* C24: with the corpus unchanged, two calls of find_similar for the same
\* question return the same set of documents, whenever after startup each of
\* them is made, the time while the documents are being loaded included.
C24_SameQuestionSameDocuments ==
    \A a, b \in DOMAIN results :
        {results[a][i] : i \in DOMAIN results[a]} = {results[b][i] : i \in DOMAIN results[b]}


\* C34: of two documents with equal similarity to the question, a retrieval
\* ranks the one with the smaller corpus index first.
C34_TiesBySmallerIndex ==
    /\ rpc = "returned" =>
          \A i, j \in 1..Len(top_indices) :
              (i < j /\ rSim[top_indices[i]] = rSim[top_indices[j]]) =>
                  top_indices[i] < top_indices[j]
    /\ \A a \in DOMAIN results :
          \A i, j \in DOMAIN results[a] :
              (/\ i < j
               /\ results[a][i] >= 1
               /\ results[a][j] >= 1
               /\ ~CosineLess(doc_embeddings[results[a][i]], doc_embeddings[results[a][j]], q_embedding)
               /\ ~CosineLess(doc_embeddings[results[a][j]], doc_embeddings[results[a][i]], q_embedding)) =>
                  results[a][i] < results[a][j]
(***************************************************************************)
(* Claims about DialogueMemory (SpecMemory).                               *)
(***************************************************************************)

\* C27: after any sequence of add_message and get_context calls the memory
\* holds at most max_messages messages, they are exactly the most recently
\* added ones in the order they were added, and a get_context call leaves
\* the stored messages as they were.
C27_BoundedFifoMemory ==
    /\ [](/\ Len(memory) <= max_messages
          /\ memory = IF Len(history) <= max_messages THEN history
                      ELSE LastN(history, max_messages))
    /\ [][(\E n \in Windows : MemGetContext(n)) => (memory' = memory)]_vars

\* more messages were added than the memory holds, and a context was read
C27_Witness ==
    /\ Len(history) > max_messages
    /\ Len(memory) = max_messages
    /\ Len(context) = max_messages
    /\ context = memory

(***************************************************************************)
(* Claims about PriceAlertsManager (SpecAlerts).                           *)
(***************************************************************************)

\* C38: an alert fires at most once: since it was added at most one
\* check_alert call for it has returned True; a check_alert call that returns
\* True marks the alert triggered; a check_alert call for a triggered alert,
\* or for an id under which no alert is stored (removed or never added),
\* returns False whatever the price and changes no alert.
C38_AlertFiresAtMostOnce ==
    /\ [](\A id \in AlertIds : fired[id] <= 1)
    /\ [][\A id \in AlertIds, current_price \in Prices :
            CheckAlert(id, current_price) =>
                /\ alertRet'.result => (alerts'[id].triggered /\ ~alerts[id].triggered)
                /\ (alerts[id].triggered \/ alerts[id] = NoAlert) =>
                      (~alertRet'.result /\ alerts' = alerts)]_vars

\* an alert has fired, and a later check_alert call with a price that meets
\* its condition has returned False
C38_Witness ==
    \E id \in AlertIds :
        /\ fired[id] = 1
        /\ alerts[id].triggered
        /\ alertRet.id = id
        /\ ~alertRet.result
        /\ condition_met(alerts[id], alertRet.price)
====
